---- MODULE Spec2Model ----
(***************************************************************************)
(* The Marble Swindle: the script interpreter (ScriptRunner.ts), the world *)
(* state store (GameState.ts) and the action dispatcher of the scene       *)
(* (GameScene.ts), as one state machine.                                   *)
(*                                                                         *)
(* JavaScript is single threaded: a handler (a click, a frame, a timer, a  *)
(* signal from the UI) runs to its end, then every continuation that was   *)
(* made ready runs (the microtask queue, variable ready), and only then    *)
(* the next handler.  A call of runScriptWithContext is a task: it runs    *)
(* synchronously in its caller up to its first await.                      *)
(***************************************************************************)
EXTENDS Integers, Sequences, FiniteSets, TLC

\* ------------------------------------------------------------------ bounds
MaxTasks == 2          \* runScriptWithContext calls in progress at once
MaxInventory == 3      \* length of the inventory when conditions write to it

\* ------------------------------------------------------- program constants
FadeMs == 1            \* goToRoom / giveItem / fade sleeps: 500 ms, the time unit
PuzzleMs == 2          \* puzzleSolved sleeps 1000 ms

VARIABLES
  gameState,               \* GameState.ts: the world state singleton
  isRunningScript,         \* ScriptRunner.ts: the script-running flag
  dialogueDismissResolve,  \* task waiting for a text dismissal, 0 = null
  dialogueCompleteResolve, \* task waiting for the end of a dialogue, 0 = null
  walkCompleteResolvers,   \* actor id -> task waiting for that walk, 0 = absent
  tasks,                   \* the runScriptWithContext calls in progress
  ready,                   \* continuations made ready, in order (microtasks)
  timers,                  \* pending setTimeout of sleep(): <<task, remaining>>
  currentRoom,             \* GameScene: the room the scene has loaded
  playerPath,              \* GameScene: path of the walk in flight
  playerDistanceTraveled,  \* GameScene: distance covered on playerPath
  isWalking,               \* GameScene
  actionQueue,             \* GameScene: pending actions
  currentAction,           \* GameScene: the action being carried out
  selectedItem,            \* GameScene: item armed for the next hotspot click
  saves,                   \* GameState.ts: the save slots kept in localStorage
  currentTree,             \* DialogueManager.ts: id of the tree in use, or NoTree
  currentNode,             \* DialogueManager.ts: the node in use, or NoNode
  isDialogueActive,        \* DialogueManager.ts
  dialogueTrees,           \* DialogueManager.ts: the registered trees, by id
  hist                     \* history of the run, read by the properties only

vars == <<gameState, isRunningScript, dialogueDismissResolve,
          dialogueCompleteResolve, walkCompleteResolvers, tasks, ready, timers,
          currentRoom, playerPath, playerDistanceTraveled, isWalking,
          actionQueue, currentAction, selectedItem, saves, currentTree,
          currentNode, isDialogueActive, dialogueTrees, hist>>

\* ------------------------------------------------------------- static data
Actors == {"player", "npc"}
Items == {"lantern"}
NoItem == "none"
NoRoom == "none"
NoTree == "none"
NoScript == "none"

\* Commands: one record shape for every ScriptCommand variant.
Cmd(type, a, b) == [type |-> type, a |-> a, b |-> b]

\* Conditions: what the condition strings of the data evaluate.
CondNotVisited(r) == [k |-> "notVisited", x |-> r]
CondFlag(f) == [k |-> "flag", x |-> f]
CondHasItem(i) == [k |-> "hasItem", x |-> i]
\* the empty or whitespace-only string
CondBlank == [k |-> "blank", x |-> ""]
\* a string that is not an expression: new Function throws a SyntaxError
CondSyntax == [k |-> "syntax", x |-> ""]
\* an identifier that the evaluation context does not define
CondIdent(n) == [k |-> "ident", x |-> n]
\* inventory.push('i'): the context hands out the inventory array itself
CondPush(i) == [k |-> "push", x |-> i]
CondAnd(a, b) == [k |-> "and", x |-> <<a, b>>]

AllScripts ==
  [ enter1    |-> << Cmd("if", CondNotVisited("r1"), <<"intro", NoScript>>) >>,
    intro     |-> << Cmd("narrate", 0, 0) >>,
    enter2    |-> << Cmd("narrate", 0, 0), Cmd("setFlag", "f", TRUE) >>,
    use1      |-> << Cmd("setFlag", "a", 1), Cmd("thought", 0, 0),
                     Cmd("setFlag", "a", 2) >>,
    use2      |-> << Cmd("goToRoom", "r1", -1), Cmd("thought", 0, 0) >>,
    useItem1  |-> << Cmd("walk", "npc", 0), Cmd("walk", "player", 0),
                     Cmd("startDialogue", "c", 0) >>,
    exit_e1   |-> << Cmd("goToRoom", "r2", 0) >>,
    exit_e2   |-> << Cmd("goToRoom", "r1", -1) >>,
    cantUse   |-> << Cmd("thought", 0, 0) >>,
    doesntWork |-> << Cmd("thought", 0, 0) >>,
    cantUseItem |-> << Cmd("thought", 0, 0) >>,
    nothingSpecial |-> << Cmd("narrate", 0, 0) >>,
    talk      |-> << Cmd("startDialogue", "c", 0) >>,
    \* a second pair of rooms: r4 with an exit to r3, r3 with two hotspots
    enter3    |-> << Cmd("if", CondNotVisited("r3"), <<"intro", NoScript>>) >>,
    use4      |-> << Cmd("thought", 0, 0), Cmd("setFlag", "f", TRUE),
                     Cmd("if", CondFlag("f"), <<"solve4", NoScript>>) >>,
    solve4    |-> << Cmd("puzzleSolved", "p", 0) >>,
    use5      |-> << Cmd("if", CondFlag("f"), <<"then5", "else5">>) >>,
    then5     |-> << Cmd("narrate", 0, 0) >>,
    else5     |-> << Cmd("thought", 0, 0) >>,
    exit_e4   |-> << Cmd("goToRoom", "r3", 0) >>,
    \* lists that change the reputation
    repUp     |-> << Cmd("reputation", 1000, 0) >>,
    repDown   |-> << Cmd("reputation", -60, 0) >>,
    \* lists of the dialogue trees
    dlgEnter1 |-> << Cmd("say", 0, 0) >>,
    dlgExit1  |-> << Cmd("setFlag", "x", TRUE) >>,
    dlgSelect |-> << Cmd("say", 0, 0), Cmd("setFlag", "y", TRUE) >>,
    dlgEnter2 |-> << Cmd("setFlag", "f", TRUE) >>,
    dlgExit3  |-> << Cmd("setFlag", "z", TRUE) >>,
    \* lists of the inventory bar and of the item definitions
    cantCombine |-> << Cmd("thought", 0, 0) >>,
    combined  |-> << Cmd("thought", 0, 0) >>,
    tieRope   |-> << Cmd("takeItem", "rope", 0), Cmd("setFlag", "f", TRUE) >>,
    pickUp    |-> << Cmd("giveItem", "rope", 0), Cmd("incFlag", "n", 1) >>,
    \* a room with two hotspots whose lists walk the player
    walkOut   |-> << Cmd("walk", "player", 3), Cmd("setFlag", "w", TRUE) >>,
    walkIn    |-> << Cmd("walk", "player", 1), Cmd("setFlag", "w", FALSE) >>,
    \* its exit leads to r9, a room that no room file defines
    exit_e5   |-> << Cmd("goToRoom", "r9", -1) >> ]

ScriptIds == DOMAIN AllScripts
Script(id) == AllScripts[id]

\* Rooms: hotspots and exits with their interaction points on a line 0..2.
Rooms == {"r1", "r2", "r3", "r4", "r5"}
RoomOnEnter(r) ==
  CASE r = "r1" -> "enter1" [] r = "r2" -> "enter2" [] r = "r3" -> "enter3"
    [] OTHER -> NoScript
RoomHotspots(r) ==
  CASE r = "r1" -> {"h1"} [] r = "r2" -> {"h2", "h3"} [] r = "r3" -> {"h4", "h5"}
    [] r = "r5" -> {"h6", "h7"} [] OTHER -> {}
RoomExits(r) ==
  CASE r = "r1" -> {"e1"} [] r = "r2" -> {"e2"} [] r = "r4" -> {"e4"}
    [] r = "r5" -> {"e5"} [] OTHER -> {}
HotspotUseScript(h) ==
  CASE h = "h1" -> "use1" [] h = "h2" -> "use2" [] h = "h4" -> "use4"
    [] h = "h5" -> "use5" [] h = "h6" -> "walkOut" [] h = "h7" -> "walkIn"
    [] OTHER -> NoScript
HotspotUseWithItem(h, i) ==
  IF h = "h1" /\ i = "lantern" THEN "useItem1" ELSE NoScript
HotspotInteractionPoint(h) ==
  CASE h = "h6" -> 0 [] h = "h7" -> 2 [] OTHER -> 1
ExitCenter(e) == 2
ExitScript(e) ==
  CASE e = "e1" -> "exit_e1" [] e = "e4" -> "exit_e4" [] e = "e5" -> "exit_e5"
    [] OTHER -> "exit_e2"
Points == 0..2

\* Dialogue trees, in the order loadDialogueFile registers them.  t1 and t2
\* belong to the same character; priority and condition are the metadata of
\* their definitions in the dialogue file.
NoCond == [k |-> "none", x |-> ""]
NoNext == "none"
Choice(id, target, cond, once, onSelect) ==
  [id |-> id, targetNode |-> target, condition |-> cond, once |-> once,
   onSelect |-> onSelect]
Node(onEnter, onExit, next, endConversation, choices) ==
  [onEnter |-> onEnter, onExit |-> onExit, next |-> next,
   endConversation |-> endConversation, choices |-> choices]
TreeOrder == <<"t1", "t2", "t3", "t4">>
DialogueTrees ==
  [ t1 |-> [ characterId |-> "npc", startNode |-> "start", priority |-> 0,
             condition |-> NoCond,
             nodes |->
               [ start |-> Node("dlgEnter1", "dlgExit1", NoNext, FALSE,
                   << Choice("c1", "n2", NoCond, TRUE, "dlgSelect"),
                      Choice("c2", "end", CondFlag("f"), FALSE, NoScript),
                      Choice("c3", "n3", NoCond, FALSE, NoScript) >>),
                 n2 |-> Node("dlgEnter2", NoScript, "start", FALSE, <<>>),
                 n3 |-> Node(NoScript, NoScript, NoNext, FALSE,
                   << Choice("c4", "end", CondFlag("never"), FALSE,
                             NoScript) >>) ] ],
    t2 |-> [ characterId |-> "npc", startNode |-> "start", priority |-> 10,
             condition |-> NoCond,
             nodes |->
               [ start |-> Node(NoScript, NoScript, NoNext, TRUE, <<>>) ] ],
    \* t3: two nodes reuse the choice id a, as back_to_topics is reused in
    \* createSampleDialogueTrees; the targets "gone" name no node of the tree.
    t3 |-> [ characterId |-> "guide", startNode |-> "start", priority |-> 0,
             condition |-> NoCond,
             nodes |->
               [ start |-> Node(NoScript, "dlgExit1", NoNext, FALSE,
                   << Choice("a", "m", NoCond, TRUE, NoScript),
                      Choice("b", "gone", NoCond, FALSE, NoScript) >>),
                 m |-> Node(NoScript, "dlgExit3", "fin", FALSE,
                   << Choice("a", "start", NoCond, TRUE, NoScript) >>),
                 fin |-> Node("dlgEnter1", NoScript, "gone", FALSE, <<>>) ] ],
    \* t4: the start node of the tree is not among its nodes.
    t4 |-> [ characterId |-> "ghost", startNode |-> "gone", priority |-> 0,
             condition |-> NoCond,
             nodes |->
               [ start |-> Node(NoScript, NoScript, NoNext, TRUE, <<>>) ] ] ]
Characters == {"npc"}
ChoiceIds == {"c1", "c2", "c3", "c4", "zz"}
GuideCharacters == {"guide", "ghost"}
GuideChoiceIds == {"a", "b"}
NodeAt(ref) == DialogueTrees[ref.tree].nodes[ref.id]

\* ------------------------------------------------------------ small helpers
Contains(seq, x) == \E i \in 1..Len(seq) : seq[i] = x
Filter(seq, x) == SelectSeq(seq, LAMBDA y : y # x)
Abs(n) == IF n < 0 THEN -n ELSE n
SetKey(f, k, v) == [n \in (DOMAIN f) \cup {k} |-> IF n = k THEN v ELSE f[n]]

\* ---------------------------------------------------------- GameState.ts
createInitialState ==
  [ currentRoom |-> "r1", playerPosition |-> 0, playerFacing |-> "right",
    inventory |-> <<>>, flags |-> [n \in {} |-> 0],
    visitedRooms |-> <<>>, solvedPuzzles |-> <<>>, reputation |-> 0,
    dialogueHistory |-> <<>>, selectedChoices |-> <<>>,
    roomStates |-> [r \in {} |-> 0] ]

hasVisitedRoom(g, r) == Contains(g.visitedRooms, r)

\* Mutation: the room is not added to the visited rooms.
setCurrentRoomOnly(g, r) == [g EXCEPT !.currentRoom = r]
setCurrentRoom(g, r) ==
  [g EXCEPT !.currentRoom = r,
            !.visitedRooms = IF Contains(@, r) THEN @ ELSE Append(@, r)]
setPlayerPosition(g, p) == [g EXCEPT !.playerPosition = p]
setPlayerFacing(g, d) == [g EXCEPT !.playerFacing = d]
addItemAlways(g, i) == [g EXCEPT !.inventory = Append(@, i)]

addItem(g, i) ==
  [g EXCEPT !.inventory = IF Contains(@, i) THEN @ ELSE Append(@, i)]
removeItem(g, i) == [g EXCEPT !.inventory = Filter(@, i)]
setFlag(g, f, v) == [g EXCEPT !.flags = SetKey(@, f, v)]
\* The flags that hold a number (typeof current === 'number'): a flag keeps
\* the type of its first value in every list and call of this model.
NumberFlags == {"a", "n"}
incrementFlag(g, f, amount) ==
  IF f \in DOMAIN g.flags /\ f \in NumberFlags
    THEN setFlag(g, f, g.flags[f] + amount)
    ELSE setFlag(g, f, amount)
\* Mutation: the value is stored as given.
setReputationNoClamp(g, value) == [g EXCEPT !.reputation = value]

Max(a, b) == IF a >= b THEN a ELSE b
Min(a, b) == IF a <= b THEN a ELSE b
setReputation(g, value) == [g EXCEPT !.reputation = Max(-100, Min(100, value))]
adjustReputation(g, amount) == setReputation(g, g.reputation + amount)
hasSelectedChoice(g, key) == Contains(g.selectedChoices, key)
recordDialogueVisit(g, key) ==
  IF Contains(g.dialogueHistory, key) THEN g
  ELSE [g EXCEPT !.dialogueHistory = Append(@, key)]
recordChoiceSelection(g, key) ==
  IF Contains(g.selectedChoices, key) THEN g
  ELSE [g EXCEPT !.selectedChoices = Append(@, key)]
markPuzzleSolved(g, p) ==
  [g EXCEPT !.solvedPuzzles = IF Contains(@, p) THEN @ ELSE Append(@, p)]

\* roomStates holds an entry for the rooms ensureRoomState has met; of an
\* entry only disabledHotspots is ever written.
ensureRoomState(g, r) ==
  IF r \in DOMAIN g.roomStates THEN g
  ELSE [g EXCEPT !.roomStates = SetKey(@, r, [disabledHotspots |-> <<>>])]
setHotspotEnabled(g, r, h, enabled) ==
  LET g1 == ensureRoomState(g, r)
  IN [g1 EXCEPT !.roomStates[r].disabledHotspots =
        IF enabled THEN Filter(@, h)
        ELSE IF Contains(@, h) THEN @ ELSE Append(@, h)]
resetGame(g) == createInitialState

\* The body of the function that new Function builds from the condition
\* string: g is the store after the evaluation, v the truth of the value,
\* err whether an exception ended it.  && evaluates its right operand only
\* when the left one is truthy.
RECURSIVE evalFunc(_, _)
evalFunc(g, c) ==
  CASE c.k = "notVisited" ->
         [g |-> g, v |-> ~hasVisitedRoom(g, c.x), err |-> FALSE]
    [] c.k = "flag" ->
         [g |-> g, v |-> c.x \in DOMAIN g.flags /\ g.flags[c.x] = TRUE,
          err |-> FALSE]
    [] c.k = "hasItem" ->
         [g |-> g, v |-> Contains(g.inventory, c.x), err |-> FALSE]
    [] c.k = "push" ->
         [g |-> [g EXCEPT !.inventory = Append(@, c.x)], v |-> TRUE,
          err |-> FALSE]
    [] c.k = "and" ->
         LET l == evalFunc(g, c.x[1])
         IN IF l.err \/ ~l.v THEN l ELSE evalFunc(l.g, c.x[2])
    [] OTHER -> [g |-> g, v |-> FALSE, err |-> TRUE]

\* evaluateCondition with the store it leaves behind: failed tells that the
\* catch clause produced the value.
caught(r) ==
  IF r.err THEN [g |-> r.g, value |-> FALSE, failed |-> TRUE]
           ELSE [g |-> r.g, value |-> r.v, failed |-> FALSE]
evalCondition(g, c) ==
  IF c.k \in {"none", "blank"}
    THEN [g |-> g, value |-> TRUE, failed |-> FALSE]
    ELSE caught(evalFunc(g, c))

evaluateCondition(g, c) == evalCondition(g, c).value

\* saveGame / loadGame: the slot holds the SaveData record that JSON.stringify
\* wrote (the snapshot as it was at the save); loadGame installs a copy of it.
\* The timestamp of the record is not read by the engine and is left out.
Slots == {1, 2}
NoSave == [version |-> "none"]
SAVE_VERSION == "1.0.0"
\* A blob that JSON.parse rejects is written as a table over no slot;
\* getSaveSlots then returns {}.
Unparsable == [slot \in {0} |-> NoSave]
getSaveSlots(sv) ==
  IF DOMAIN sv = Slots THEN sv ELSE [slot \in Slots |-> NoSave]

\* JSON.stringify and JSON.parse on the values of the store.  The text of an
\* object is the list of its <<key, value>> members; numbers, booleans,
\* strings and arrays of strings are written as they are.
RECURSIVE keysOf(_)
keysOf(S) ==
  IF S = {} THEN <<>>
  ELSE LET k == CHOOSE k \in S : TRUE IN <<k>> \o keysOf(S \ {k})
membersOf(o, ks) == [i \in 1..Len(ks) |-> <<ks[i], o[ks[i]]>>]
stringifyObject(o) == membersOf(o, keysOf(DOMAIN o))
memberNamed(text, k) ==
  text[CHOOSE i \in 1..Len(text) :
         text[i][1] = k /\ \A j \in (i + 1)..Len(text) : text[j][1] # k][2]
parseObject(text) ==
  [k \in {text[i][1] : i \in 1..Len(text)} |-> memberNamed(text, k)]
\* The members of a nested object: roomStates is an object of objects.
stringifyEach(o) == [k \in DOMAIN o |-> stringifyObject(o[k])]
parseEach(o) == [k \in DOMAIN o |-> parseObject(o[k])]
stringifyField(k, v) ==
  CASE k = "flags" -> stringifyObject(v)
    [] k = "roomStates" -> stringifyObject(stringifyEach(v))
    [] OTHER -> v
parseField(k, text) ==
  CASE k = "flags" -> parseObject(text)
    [] k = "roomStates" -> parseEach(parseObject(text))
    [] OTHER -> text
stringifyFields(g) == [k \in DOMAIN g |-> stringifyField(k, g[k])]
parseFields(o) == [k \in DOMAIN o |-> parseField(k, o[k])]
stringify(g) == stringifyObject(stringifyFields(g))
parse(text) == parseFields(parseObject(text))

\* Mutation: the record replaces the table instead of joining it.
saveGameAlone(g, sv, slot) ==
  [s \in Slots |-> IF s = slot
     THEN [version |-> SAVE_VERSION, gameState |-> parse(stringify(g))]
     ELSE NoSave]

\* The table is written as JSON text; getSaveSlots parses it again (the
\* records of the other slots are JSON values already).
saveGame(g, sv, slot) ==
  [getSaveSlots(sv) EXCEPT
     ![slot] = [version |-> SAVE_VERSION, gameState |-> parse(stringify(g))]]
deleteSave(sv, slot) == [getSaveSlots(sv) EXCEPT ![slot] = NoSave]
\* { ...saveData.gameState }: an object without fields when the record has
\* no gameState.
EmptyObject == [n \in {} |-> 0]
loadGame(g, sv, slot) ==
  LET saveData == getSaveSlots(sv)[slot]
  IN IF saveData = NoSave THEN g
     ELSE IF "gameState" \in DOMAIN saveData THEN saveData.gameState
     ELSE EmptyObject
\* The boolean loadGame returns.
loadGameResult(sv, slot) == getSaveSlots(sv)[slot] # NoSave

\* ---------------------------------------------------------- pathfinding.ts
\* The scene of this model is a line: a position is the number of a point of
\* that line, and the unit of length is the distance of two neighbours.
distance(a, b) == Abs(a - b)
getDirection(from, to) == IF to < from THEN "left" ELSE "right"

\* interpolatePath for a path of at most one segment; lengths are 0, 1 or 2,
\* so every interpolated position is again a point of the line.
interpolatePath(path, travelled) ==
  IF Len(path) < 2
    THEN [position |-> IF Len(path) = 0 THEN 0 ELSE path[1], finished |-> TRUE]
    ELSE LET len == distance(path[1], path[2]) IN
         IF travelled <= len
           THEN [position |-> IF travelled = len THEN path[2]
                              ELSE IF travelled = 0 THEN path[1]
                              ELSE (path[1] + path[2]) \div 2,
                 finished |-> FALSE]
           ELSE [position |-> path[2], finished |-> TRUE]

\* ---------------------------------------------- pathfinding.ts on a polygon
\* A point is <<x, y>> in tenths of a pixel and a distance is in hundredths
\* of a pixel; Math.sqrt and the divisions round to the nearest such unit.
RoundDiv(a, b) ==
  IF a >= 0 THEN (2 * a + b) \div (2 * b) ELSE -((2 * (-a) + b) \div (2 * b))
RECURSIVE Newton(_, _)
NewtonStep(n, r, q) == IF q >= r THEN r ELSE Newton(n, q)
Newton(n, r) == NewtonStep(n, r, (r + n \div r) \div 2)
Nearest(n, r) == IF n - r * r > r THEN r + 1 ELSE r
Sqrt(n) == IF n = 0 THEN 0 ELSE Nearest(n, Newton(n, n))
Px(n) == 10 * n
Pt(x, y) == <<Px(x), Px(y)>>

\* Ray casting: the edge from points[i] to points[j] is crossed by the ray,
\* point.x < (xj - xi) * (point.y - yi) / (yj - yi) + xi, with d = yj - yi
\* multiplied out: l = (point.x - xi) * d, r = (xj - xi) * (point.y - yi).
LeftOf(d, l, r) == IF d > 0 THEN l < r ELSE l > r
Crosses(point, pi, pj) ==
  /\ (pi[2] > point[2]) # (pj[2] > point[2])
  /\ LeftOf(pj[2] - pi[2], (point[1] - pi[1]) * (pj[2] - pi[2]),
            (pj[1] - pi[1]) * (point[2] - pi[2]))
isPointInPolygon(point, polygon) ==
  Cardinality({i \in 1..Len(polygon) :
                 Crosses(point, polygon[i],
                         polygon[IF i = 1 THEN Len(polygon) ELSE i - 1])})
    % 2 = 1

SquareOf(dx, dy) == dx * dx + dy * dy
pointDistance(a, b) == Sqrt(100 * SquareOf(b[1] - a[1], b[2] - a[2]))

\* a + t * (dx, dy), where t is num / lenSq.
pointAtT(a, dx, dy, num, lenSq) ==
  <<a[1] + RoundDiv(num * dx, lenSq), a[2] + RoundDiv(num * dy, lenSq)>>
segmentPoint(p, a, dx, dy, lenSq) ==
  IF lenSq = 0 THEN a
  ELSE pointAtT(a, dx, dy,
                Max(0, Min(lenSq, (p[1] - a[1]) * dx + (p[2] - a[2]) * dy)),
                lenSq)
closestPointOnLineSegment(p, a, b) ==
  segmentPoint(p, a, b[1] - a[1], b[2] - a[2],
               SquareOf(b[1] - a[1], b[2] - a[2]))

RECURSIVE SumOf(_, _)
SumOf(polygon, c) ==
  IF polygon = <<>> THEN 0 ELSE Head(polygon)[c] + SumOf(Tail(polygon), c)
getPolygonCenter(polygon) ==
  <<RoundDiv(SumOf(polygon, 1), Len(polygon)),
    RoundDiv(SumOf(polygon, 2), Len(polygon))>>

\* p moved by d pixels towards center: p + (dx / len) * d, for len > 0.
TowardsBy(p, dx, dy, len, d) ==
  <<p[1] + RoundDiv(dx * d * 100, len), p[2] + RoundDiv(dy * d * 100, len)>>
Towards(p, center, d) ==
  TowardsBy(p, center[1] - p[1], center[2] - p[2], pointDistance(p, center), d)

\* The loop over the edges: closest is the point of edge i nearest to point,
\* and `dist < minDist` keeps the first edge among the nearest.
closestOnEdge(point, polygon, i) ==
  closestPointOnLineSegment(point, polygon[i],
                            polygon[(i % Len(polygon)) + 1])
FirstMin(dist) ==
  CHOOSE k \in DOMAIN dist :
    /\ \A m \in DOMAIN dist : dist[k] <= dist[m]
    /\ \A m \in 1..(k - 1) : dist[m] > dist[k]
closestOnBoundary(point, polygon) ==
  closestOnEdge(point, polygon,
    FirstMin([i \in 1..Len(polygon) |->
                pointDistance(point, closestOnEdge(point, polygon, i))]))
\* "Move slightly inside the polygon"
moveInside(closestPoint, center) ==
  IF pointDistance(closestPoint, center) > 0
    THEN Towards(closestPoint, center, 2)
    ELSE closestPoint
getClosestPointInPolygon(point, polygon) ==
  IF isPointInPolygon(point, polygon) THEN point
  ELSE moveInside(closestOnBoundary(point, polygon),
                  getPolygonCenter(polygon))

\* start + (end - start) * num / den
Along(start, end, num, den) ==
  <<start[1] + RoundDiv((end[1] - start[1]) * num, den),
    start[2] + RoundDiv((end[2] - start[2]) * num, den)>>
\* The two ends, the midpoint and the samples i / 5 are all inside.
canWalkDirectly(start, end, polygon) ==
  \A p \in {start, end, Along(start, end, 1, 2)}
             \cup {Along(start, end, i, 5) : i \in 1..4} :
    isPointInPolygon(p, polygon)

RECURSIVE MinOfCoord(_, _)
MinOfCoord(polygon, c) ==
  IF Len(polygon) = 1 THEN polygon[1][c]
  ELSE Min(Head(polygon)[c], MinOfCoord(Tail(polygon), c))
RECURSIVE MaxOfCoord(_, _)
MaxOfCoord(polygon, c) ==
  IF Len(polygon) = 1 THEN polygon[1][c]
  ELSE Max(Head(polygon)[c], MaxOfCoord(Tail(polygon), c))
gridSize == Px(30)
\* "Add grid points inside polygon": the points of the bounding box, the
\* columns from minX on and in each column the rows from minY on.
gridPoints(minX, minY, nx, ny) ==
  [k \in 1..(nx * ny) |->
     <<minX + ((k - 1) \div ny) * gridSize,
       minY + ((k - 1) % ny) * gridSize>>]
gridOver(minX, minY, maxX, maxY) ==
  gridPoints(minX, minY, (maxX - minX) \div gridSize + 1,
             (maxY - minY) \div gridSize + 1)
\* "Add polygon vertices (slightly inset)"; <<>> for a vertex at the centre.
insetPoints(polygon, center) ==
  [k \in 1..Len(polygon) |->
     IF pointDistance(polygon[k], center) > 0
       THEN Towards(polygon[k], center, 15) ELSE <<>>]
pointsInside(points, polygon) ==
  SelectSeq(points, LAMBDA p : p # <<>> /\ isPointInPolygon(p, polygon))
generateNavNodes(polygon) ==
  pointsInside(
    gridOver(MinOfCoord(polygon, 1), MinOfCoord(polygon, 2),
             MaxOfCoord(polygon, 1), MaxOfCoord(polygon, 2))
      \o insetPoints(polygon, getPolygonCenter(polygon)),
    polygon)

\* "Find furthest visible point" among the points visible from current.
furthestOf(visible, current) ==
  IF visible = {} THEN current + 1
  ELSE CHOOSE i \in visible : \A m \in visible : m <= i
RECURSIVE smoothFrom(_, _, _), smoothPush(_, _, _)
smoothFrom(path, current, polygon) ==
  IF current >= Len(path) THEN <<>>
  ELSE smoothPush(path,
                  furthestOf({i \in (current + 2)..Len(path) :
                                canWalkDirectly(path[current], path[i],
                                                polygon)},
                             current),
                  polygon)
smoothPush(path, furthest, polygon) ==
  <<path[furthest]>> \o smoothFrom(path, furthest, polygon)
smoothPath(path, polygon) ==
  IF Len(path) <= 2 THEN path
  ELSE <<path[1]>> \o smoothFrom(path, 1, polygon)

\* openSet.sort((a, b) => a.f - b.f): the sort is stable.
insertAt(rest, last, pos) ==
  SubSeq(rest, 1, pos) \o <<last>> \o SubSeq(rest, pos + 1, Len(rest))
insertByF(rest, last) ==
  insertAt(rest, last, Cardinality({i \in 1..Len(rest) : rest[i].f <= last.f}))
RECURSIVE SortByF(_)
SortByF(open) ==
  IF open = <<>> THEN <<>>
  ELSE insertByF(SortByF(SubSeq(open, 1, Len(open) - 1)), open[Len(open)])

\* A node of the open set keeps the way that leads to it, which is what
\* following its parent links gives: the links of a closed node no longer
\* change.
pathNode(current, point, g, h) ==
  [point |-> point, g |-> g, h |-> h, f |-> g + h,
   path |-> Append(current.path, point)]
\* "Check if already in open set with better score": existing holds the
\* index of the node of that point, if there is one.
betterScore(open, node, i) ==
  IF node.g < open[i].g THEN [open EXCEPT ![i] = node] ELSE open
intoOpenSet(open, node, existing) ==
  IF existing # {} THEN betterScore(open, node, CHOOSE m \in existing : TRUE)
  ELSE Append(open, node)
\* The body of the loop over the neighbours of current.
neighbor(open, closed, current, neighborPoint, actualEnd, polygon) ==
  IF neighborPoint \in closed THEN open
  ELSE IF ~canWalkDirectly(current.point, neighborPoint, polygon) THEN open
  ELSE intoOpenSet(
         open,
         pathNode(current, neighborPoint,
                  current.g + pointDistance(current.point, neighborPoint),
                  pointDistance(neighborPoint, actualEnd)),
         {i \in 1..Len(open) : open[i].point = neighborPoint})
\* The loop over the neighbours of current, from the k-th node on.
RECURSIVE Neighbours(_, _, _, _, _, _, _)
Neighbours(open, closed, current, nodes, k, actualEnd, polygon) ==
  IF k > Len(nodes) THEN open
  ELSE Neighbours(
         neighbor(open, closed, current, nodes[k], actualEnd, polygon),
         closed, current, nodes, k + 1, actualEnd, polygon)

\* The while loop of findPath: current is the head of the sorted open set.
RECURSIVE Search(_, _, _, _, _)
searchFrom(current, rest, closed, nodes, actualEnd, polygon) ==
  IF pointDistance(current.point, actualEnd) < 500
    THEN [path |-> smoothPath(current.path, polygon), found |-> TRUE]
    ELSE Search(Neighbours(rest, closed \cup {current.point}, current, nodes,
                           1, actualEnd, polygon),
                closed \cup {current.point}, nodes, actualEnd, polygon)
searchSorted(sorted, closedSet, nodes, actualEnd, polygon) ==
  searchFrom(Head(sorted), Tail(sorted), closedSet, nodes, actualEnd, polygon)
Search(openSet, closedSet, nodes, actualEnd, polygon) ==
  IF openSet = <<>> THEN [path |-> <<>>, found |-> FALSE]
  ELSE searchSorted(SortByF(openSet), closedSet, nodes, actualEnd, polygon)

\* findPath(start, end, polygon); how tells which return statement gave the
\* path: the direct line, the reconstructed path or the line after the
\* open set ran empty.
startNode(actualStart, h) ==
  [point |-> actualStart, g |-> 0, h |-> h, f |-> h, path |-> <<actualStart>>]
searched(result, actualStart, actualEnd) ==
  IF result.found THEN [path |-> result.path, how |-> "goal"]
  ELSE [path |-> <<actualStart, actualEnd>>, how |-> "exhausted"]
\* findPath from "Can we walk directly?" on.
findPathBetween(actualStart, actualEnd, polygon) ==
  IF canWalkDirectly(actualStart, actualEnd, polygon)
    THEN [path |-> <<actualStart, actualEnd>>, how |-> "direct"]
    ELSE searched(
           Search(<<startNode(actualStart,
                              pointDistance(actualStart, actualEnd))>>,
                  {},
                  generateNavNodes(polygon) \o <<actualStart, actualEnd>>,
                  actualEnd, polygon),
           actualStart, actualEnd)
findPathIn(start, end, polygon) ==
  findPathBetween(getClosestPointInPolygon(start, polygon),
                  getClosestPointInPolygon(end, polygon), polygon)

\* The walkable area of every room has the shape of an L.  The points 0, 1
\* and 2 of the scene lie on a line inside its upright arm; 3 is a point
\* beside that arm, outside the area and three pixels from where point 0 is.
WalkableArea ==
  <<Pt(0, 0), Pt(70, 0), Pt(70, 70), Pt(40, 70), Pt(40, 30), Pt(0, 30)>>
Place(p) ==
  CASE p = 0 -> Pt(42, 50) [] p = 1 -> Pt(55, 50) [] p = 2 -> Pt(68, 50)
    [] OTHER -> Pt(20, 50)
PointAt(point) ==
  CHOOSE p \in 0..3 : getClosestPointInPolygon(Place(p), WalkableArea) = point
PointsAt(path) == [i \in 1..Len(path) |-> PointAt(path[i])]
findPath(start, end) ==
  PointsAt(findPathIn(Place(start), Place(end), WalkableArea).path)

\* ------------------------------------------------------------------- tasks
\* status: free | ready | dismiss | walk | complete | sleep | finished
\* frames: the nested command lists being run, <<script, index>>, innermost
\*         last; phase: number of awaits the current command has passed;
\* cont:   what the caller chained on the returned promise;
\* src:    who called runScriptWithContext;
\* k:      for a call awaited by a function of DialogueManager.ts, where that
\*         function goes on and the locals it holds.
NoVia == [choice |-> "", trail |-> <<>>]
NoNode == [tree |-> "none", id |-> "none"]
NoK == [pc |-> "none", node |-> NoNode, choice |-> "", via |-> NoVia]
FreeTask ==
  [status |-> "free", frames |-> <<>>, phase |-> 0, wait |-> "",
   cont |-> "none", src |-> "none", k |-> NoK]
WaitStatus == {"dismiss", "walk", "complete", "sleep"}
InProgress(tk) == tk.status \in WaitStatus \cup {"ready"}

\* Drop the nested lists that have run out; the command that opened a nested
\* list (an if) is complete when the list is, so its index moves on.
RECURSIVE Norm(_)
Norm(fr) ==
  IF Len(fr) > 1 /\ fr[Len(fr)][2] > Len(Script(fr[Len(fr)][1]))
    THEN LET outer == SubSeq(fr, 1, Len(fr) - 1)
             n == Len(outer)
         IN Norm([outer EXCEPT ![n] = <<@[1], @[2] + 1>>])
    ELSE fr
NextFrames(fr) == Norm([fr EXCEPT ![Len(fr)] = <<@[1], @[2] + 1>>])
Exhausted(fr) == Len(fr) = 1 /\ fr[1][2] > Len(Script(fr[1][1]))
CurCmd(fr) == Script(fr[Len(fr)][1])[fr[Len(fr)][2]]

\* ------------------------------------------------------- ScriptRunner.ts
\* The operators below take the whole program state as a record s (one field
\* per variable) and return the state after the call, so that a call made
\* inside another call (an event listener, a chained callback) is part of
\* the same step.  s.overflow is set when a call needs more than MaxTasks.

\* hist.signals, hist.started and hist.click describe the last step only.
NoStoreOp == [op |-> "none", from |-> 0, arg |-> 0]
NoCall == [op |-> "none", arg |-> ""]
NoSetOp == [op |-> "none", arg |-> "", had |-> FALSE]
NoLoadOp == [slot |-> 0, kind |-> "", ok |-> FALSE, changed |-> FALSE]
NoValOp == [file |-> <<>>, errors |-> <<>>, valid |-> FALSE]
NoCondOp == [input |-> 0, value |-> FALSE, failed |-> FALSE,
             changed |-> FALSE]
\* hist.find: the arguments and the result of the last call of findPath.
NoFind == [start |-> <<>>, end |-> <<>>, actualStart |-> <<>>,
           actualEnd |-> <<>>, path |-> <<>>, how |-> ""]
NoClick == [at |-> "none", kind |-> "", id |-> "", point |-> -1]
Note(s) == [s EXCEPT !.hist.signals = {}, !.hist.resumed = {},
                     !.hist.started = {}, !.hist.click = NoClick,
                     !.hist.ifs = {}, !.hist.store = NoStoreOp,
                     !.hist.devents = <<>>, !.hist.call = NoCall,
                     !.hist.entered = {}, !.hist.missing = {},
                     !.hist.set = NoSetOp,
                     !.hist.cond = NoCondOp, !.hist.load = NoLoadOp,
                     !.hist.val = NoValOp]

\* resolve(): the awaiting task continues in a later microtask.
Resolve(s, t) ==
  [s EXCEPT !.tasks[t].status = "ready", !.ready = Append(@, t),
            !.hist.resumed = @ \cup {<<s.tasks[t].status, s.tasks[t].wait>>}]

\* The command is complete: the loop of runScript goes on one microtask later.
CommandDone(s, t) ==
  [s EXCEPT !.tasks[t].frames = NextFrames(@), !.tasks[t].phase = 0,
            !.tasks[t].wait = "", !.tasks[t].status = "ready",
            !.ready = Append(@, t)]

signalDialogueDismissed(s) ==
  LET t == s.dialogueDismissResolve
      s1 == [s EXCEPT !.hist.signals = @ \cup {<<"dismiss", "">>}]
  IN IF t # 0 THEN Resolve([s1 EXCEPT !.dialogueDismissResolve = 0], t) ELSE s

signalDialogueComplete(s) ==
  LET t == s.dialogueCompleteResolve
      s1 == [s EXCEPT !.hist.signals = @ \cup {<<"complete", "">>}]
  IN IF t # 0 THEN Resolve([s1 EXCEPT !.dialogueCompleteResolve = 0], t) ELSE s

\* Mutation: the actor id is ignored, any registered walk wait is resolved.
signalWalkCompleteAnyActor(s, characterId) ==
  LET waiting == {a \in Actors : s.walkCompleteResolvers[a] # 0}
      s1 == [s EXCEPT !.hist.signals = @ \cup {<<"walk", characterId>>}]
  IN IF waiting # {}
       THEN LET a == CHOOSE x \in waiting : TRUE
            IN Resolve([s1 EXCEPT !.walkCompleteResolvers[a] = 0],
                       s.walkCompleteResolvers[a])
       ELSE s

signalWalkComplete(s, characterId) ==
  LET t == s.walkCompleteResolvers[characterId]
      s1 == [s EXCEPT !.hist.signals = @ \cup {<<"walk", characterId>>}]
  IN IF t # 0
       THEN Resolve([s1 EXCEPT !.walkCompleteResolvers[characterId] = 0], t)
       ELSE s

\* Mutation: the dismissal is requested but not awaited.
waitForDialogueDismissNoAwait(s, t) ==
  CommandDone([s EXCEPT !.dialogueDismissResolve = t], t)

waitForDialogueDismiss(s, t) ==
  [s EXCEPT !.dialogueDismissResolve = t, !.tasks[t].status = "dismiss",
            !.tasks[t].phase = 1]
waitForDialogueComplete(s, t) ==
  [s EXCEPT !.dialogueCompleteResolve = t, !.tasks[t].status = "complete",
            !.tasks[t].phase = 1]
waitForWalkComplete(s, t, characterId) ==
  [s EXCEPT !.walkCompleteResolvers[characterId] = t,
            !.tasks[t].status = "walk", !.tasks[t].wait = characterId,
            !.tasks[t].phase = 1]
sleep(s, t, ms) ==
  [s EXCEPT !.timers = Append(@, <<t, ms>>), !.tasks[t].status = "sleep",
            !.tasks[t].phase = @ + 1]

FreeSlots(s) == {t \in 1..MaxTasks : s.tasks[t].status = "free"}
MinOf(S) == CHOOSE x \in S : \A y \in S : x <= y

NoAction ==
  [type |-> "none", target |-> -1, hotspotId |-> "", itemId |-> "",
   exit |-> "", stale |-> FALSE]

\* Mutation: the conditional runs its then-list whatever the condition says.
ifBranchAlwaysThen(g, c) == c.b[1]

\* case 'if': the list the conditional command runs, NoScript for none.
ifBranch(g, c) == IF evaluateCondition(g, c.a) THEN c.b[1] ELSE c.b[2]

RECURSIVE executeCommand(_, _), runScriptThen(_, _, _, _, _),
          runScriptWithContext(_, _, _, _),
          loadRoom(_, _, _), walkTo(_, _), onWalkComplete(_),
          processNextAction(_), handleUse(_, _), handleUseItem(_, _, _),
          handleLook(_, _), handleTalk(_)

\* Mutation: the room is recorded as current and visited after the
\* roomChange event.
goToRoomVisitLate(s, roomId, position) ==
  [loadRoom(s, roomId, position) EXCEPT
     !.gameState = setCurrentRoom(@, roomId)]

\* The goToRoom command between its two sleeps: setCurrentRoom, then the
\* roomChange event, whose listener calls loadRoom.
goToRoom(s, roomId, position) ==
  loadRoom([s EXCEPT !.gameState = setCurrentRoom(@, roomId)],
           roomId, position)

\* runScriptWithContext(commands), called by src, with cont chained on the
\* promise it returns: sets the flag and runs the first command at once.
\* k is what the caller keeps across its await of that promise.
runScriptThen(s, script, src, cont, k) ==
  IF FreeSlots(s) = {} THEN [s EXCEPT !.overflow = TRUE]
  ELSE
    LET t == MinOf(FreeSlots(s))
        tk == [status |-> "ready", frames |-> <<<<script, 1>>>>, phase |-> 0,
               wait |-> "", cont |-> cont, src |-> src, k |-> k]
        s1 == [s EXCEPT !.isRunningScript = TRUE, !.tasks[t] = tk,
                        !.hist.started = @ \cup
                           {[src |-> src, stale |-> s.currentAction.stale,
                             walkDone |-> s.hist.walkDone]}]
    IN IF Exhausted(tk.frames)
         THEN [s1 EXCEPT !.ready = Append(@, t)]
         ELSE executeCommand(s1, t)

runScriptWithContext(s, script, src, cont) ==
  runScriptThen(s, script, src, cont, NoK)

\* case 'if': the task enters the list of the branch, unless there is none
\* or it is empty.
enterBranch(s, t, branch) ==
  IF branch = NoScript \/ Len(Script(branch)) = 0 THEN s
  ELSE [s EXCEPT !.tasks[t].frames = Append(@, <<branch, 1>>)]
\* history: the condition's value, and the list the task is in after the
\* choice (NoScript when it entered none); n is the nesting before it.
noteIf(s, t, n, c, val) ==
  [s EXCEPT !.hist.ifs = @ \cup
     {[val |-> val, cond |-> c.a, then |-> c.b[1], else |-> c.b[2],
       ran |-> IF Len(s.tasks[t].frames) > n
                 THEN s.tasks[t].frames[n + 1][1] ELSE NoScript]}]
\* await runScript(branch): its first command runs at once.
runBranch(s, t, n) ==
  IF Len(s.tasks[t].frames) = n THEN CommandDone(s, t)
                                ELSE executeCommand(s, t)

\* The switch of executeCommand for task tk and its command c, from the
\* await the task has reached.
executeSwitch(s, t, tk, c) ==
  CASE c.type \in {"say", "narrate", "thought"} ->
         IF tk.phase = 0 THEN waitForDialogueDismiss(s, t)
                         ELSE CommandDone(s, t)
    [] c.type = "setFlag" ->
         CommandDone([s EXCEPT !.gameState = setFlag(@, c.a, c.b)], t)
    [] c.type = "incFlag" ->
         CommandDone([s EXCEPT !.gameState = incrementFlag(@, c.a, c.b)], t)
    [] c.type = "giveItem" ->
         IF tk.phase = 0
           THEN sleep([s EXCEPT !.gameState = addItem(@, c.a)], t, FadeMs)
           ELSE CommandDone(s, t)
    [] c.type = "takeItem" ->
         CommandDone([s EXCEPT !.gameState = removeItem(@, c.a)], t)
    [] c.type = "goToRoom" ->
         CASE tk.phase = 0 -> sleep(s, t, FadeMs)
           [] tk.phase = 1 -> sleep(goToRoom(s, c.a, c.b), t, FadeMs)
           [] OTHER -> CommandDone(s, t)
    [] c.type = "wait" ->
         IF tk.phase = 0 THEN sleep(s, t, c.a) ELSE CommandDone(s, t)
    [] c.type = "walk" ->
         IF tk.phase = 0
           THEN LET s1 == IF c.a = "player" THEN walkTo(s, c.b) ELSE s
                IN waitForWalkComplete(s1, t, c.a)
           ELSE CommandDone(s, t)
    [] c.type = "startDialogue" ->
         IF tk.phase = 0 THEN waitForDialogueComplete(s, t)
                         ELSE CommandDone(s, t)
    [] c.type = "if" ->
         runBranch(
           noteIf(enterBranch(s, t, ifBranch(s.gameState, c)), t,
                  Len(tk.frames), c, evaluateCondition(s.gameState, c.a)),
           t, Len(tk.frames))
    [] c.type = "reputation" ->
         CommandDone([s EXCEPT !.gameState = adjustReputation(@, c.a)], t)
    [] c.type = "puzzleSolved" ->
         IF tk.phase = 0
           THEN sleep([s EXCEPT !.gameState = markPuzzleSolved(@, c.a)], t,
                      PuzzleMs)
           ELSE CommandDone(s, t)
    [] OTHER -> CommandDone(s, t)

\* executeCommand: the command the task is at.
executeCommand(s, t) ==
  executeSwitch(s, t, s.tasks[t], CurCmd(s.tasks[t].frames))

\* ------------------------------------------------------------ GameScene.ts
loadRoom(s, roomId, spawnPosition) ==
  IF roomId \notin Rooms THEN s
  ELSE
    LET pos == IF spawnPosition >= 0 THEN spawnPosition
               ELSE s.gameState.playerPosition
        s1 == [s EXCEPT !.currentRoom = roomId,
                        !.gameState = setPlayerPosition(@, pos),
                        !.playerPath = <<>>, !.isWalking = FALSE,
                        !.actionQueue = <<>>, !.currentAction = NoAction]
    IN IF RoomOnEnter(roomId) # NoScript
         THEN runScriptWithContext(s1, RoomOnEnter(roomId), "roomEnter", "none")
         ELSE s1

\* walkTo once findPath has given the path.
walkAlong(s, path) ==
  IF Len(path) < 2 THEN onWalkComplete(s)
  ELSE [s EXCEPT !.playerPath = path, !.playerDistanceTraveled = 0,
                 !.isWalking = TRUE,
                 !.gameState = setPlayerFacing(@,
                                  getDirection(path[1], path[2]))]
walkTo(s, target) ==
  IF s.currentRoom = NoRoom THEN s
  ELSE walkAlong(s, findPath(s.gameState.playerPosition, target))

onWalkComplete(s) ==
  LET s1 == [s EXCEPT !.isWalking = FALSE, !.playerPath = <<>>,
                      !.hist.walkDone = @ \/ s.currentAction.type = "walk"]
  IN processNextAction(signalWalkComplete(s1, "player"))

processNextAction(s) ==
  IF Len(s.actionQueue) = 0 THEN [s EXCEPT !.currentAction = NoAction]
  ELSE
    LET a == Head(s.actionQueue)
        s1 == [s EXCEPT !.currentAction = a, !.actionQueue = Tail(@)]
    IN CASE a.type = "walk" -> walkTo(s1, a.target)
         [] a.type = "interact" ->
              processNextAction(
                runScriptWithContext(s1, ExitScript(a.exit), "exit", "none"))
         [] a.type = "use" -> handleUse(s1, a.hotspotId)
         [] a.type = "useItem" -> handleUseItem(s1, a.hotspotId, a.itemId)
         [] a.type = "look" -> handleLook(s1, a.hotspotId)
         [] a.type = "talk" -> handleTalk(s1)
         [] OTHER -> s1

handleUse(s, hotspotId) ==
  IF s.currentRoom = NoRoom THEN s
  ELSE IF hotspotId \notin RoomHotspots(s.currentRoom)
          \/ HotspotUseScript(hotspotId) = NoScript
    THEN runScriptWithContext(s, "cantUse", "use", "processNextAction")
    ELSE LET d == getDirection(s.gameState.playerPosition,
                               HotspotInteractionPoint(hotspotId))
             s1 == [s EXCEPT !.gameState = setPlayerFacing(@, d)]
         IN runScriptWithContext(s1, HotspotUseScript(hotspotId), "use",
                                 "processNextAction")

handleUseItem(s, hotspotId, itemId) ==
  IF s.currentRoom = NoRoom THEN s
  ELSE
    LET s1 == [s EXCEPT !.selectedItem = NoItem] IN
    IF hotspotId \notin RoomHotspots(s.currentRoom)
      THEN runScriptWithContext(s1, "doesntWork", "useItem",
                                "processNextAction")
    ELSE IF HotspotUseWithItem(hotspotId, itemId) # NoScript
      THEN runScriptWithContext(s1, HotspotUseWithItem(hotspotId, itemId),
                                "useItem", "processNextAction")
      ELSE runScriptWithContext(s1, "cantUseItem", "useItem",
                                "processNextAction")

handleLook(s, hotspotId) ==
  IF s.currentRoom = NoRoom THEN s
  ELSE runScriptWithContext(s, "nothingSpecial", "look", "processNextAction")

handleTalk(s) ==
  runScriptWithContext(s, "talk", "talk", "processNextAction")

WalkAction(target) == [NoAction EXCEPT !.type = "walk", !.target = target]

\* A click is a new chain: what was queued before belongs to an earlier click.
NewClick(s) ==
  [s EXCEPT !.hist.walkDone = FALSE,
            !.hist.replaced = s.isWalking /\ s.currentAction.type = "walk"
                              /\ Len(s.actionQueue) > 0,
            !.actionQueue = [i \in 1..Len(@) |-> [@[i] EXCEPT !.stale = TRUE]],
            !.currentAction = [@ EXCEPT !.stale = TRUE]]

queueAction(s, action) ==
  processNextAction([s EXCEPT !.actionQueue = <<action>>])

\* Mutation: the new chain is appended to the queue instead of replacing it.
queueHotspotInteractionAppend(s, hotspotId) ==
  LET walkAction == WalkAction(HotspotInteractionPoint(hotspotId))
      interactAction == [NoAction EXCEPT !.type = "use", !.hotspotId = hotspotId]
      s1 == [s EXCEPT !.actionQueue = @ \o <<walkAction, interactAction>>]
  IN IF s.currentAction.type = "none" THEN processNextAction(s1) ELSE s1

queueHotspotInteraction(s, hotspotId) ==
  LET walkAction == WalkAction(HotspotInteractionPoint(hotspotId))
      interactAction ==
        IF s.selectedItem # NoItem
          THEN [NoAction EXCEPT !.type = "useItem", !.hotspotId = hotspotId,
                                !.itemId = s.selectedItem]
          ELSE [NoAction EXCEPT !.type = "use", !.hotspotId = hotspotId]
  IN processNextAction(
       [s EXCEPT !.actionQueue = <<walkAction, interactAction>>])

queueExitInteraction(s, exitId) ==
  LET walkAction == WalkAction(ExitCenter(exitId))
      exitAction == [NoAction EXCEPT !.type = "interact", !.exit = exitId]
  IN processNextAction([s EXCEPT !.actionQueue = <<walkAction, exitAction>>])

\* handleClick: the click point is given by what lies under it.
ClickTargets ==
  {[kind |-> "hotspot", id |-> h, point |-> HotspotInteractionPoint(h)] :
     h \in UNION {RoomHotspots(r) : r \in Rooms}} \cup
  {[kind |-> "exit", id |-> e, point |-> ExitCenter(e)] :
     e \in UNION {RoomExits(r) : r \in Rooms}} \cup
  {[kind |-> "ground", id |-> "", point |-> p] : p \in Points}

handleClick(s, c) ==
  IF s.currentRoom = NoRoom THEN s
  ELSE CASE c.kind = "hotspot" -> queueHotspotInteraction(NewClick(s), c.id)
         [] c.kind = "exit" -> queueExitInteraction(NewClick(s), c.id)
         [] OTHER -> queueAction(NewClick(s), WalkAction(c.point))

\* Mutation: the click is handled whatever the script-running flag says.
pointerdownNoGuard(s, c) == handleClick(s, c)

\* Mutation: the click is also dropped while the player is walking.
pointerdownNotWhileWalking(s, c) ==
  IF s.isRunningScript \/ s.isWalking THEN s ELSE handleClick(s, c)

\* The pointerdown handler of setupInput.
pointerdown(s, c) ==
  IF s.isRunningScript THEN s ELSE handleClick(s, c)

\* update(time, delta): one frame of the walk in flight; speed is the
\* distance walkSpeed * (delta / 1000) that the frame's elapsed time covers.
updateBy(s, speed) ==
  IF s.isWalking /\ Len(s.playerPath) > 0
    THEN LET d == s.playerDistanceTraveled + speed
             result == interpolatePath(s.playerPath, d)
             s1 == [s EXCEPT !.playerDistanceTraveled = d,
                             !.gameState = setPlayerPosition(@, result.position)]
         IN IF result.finished THEN onWalkComplete(s1) ELSE s1
    ELSE s
\* A frame that lasts the time of one unit of distance.
update(s) == updateBy(s, 1)

\* ------------------------------------------------------ DialogueManager.ts
\* A dialogue event as the listeners receive it; hist.devents lists the
\* events of the last step in order, hist.presented is the choice list the
\* dialogue box shows (PhaserGame.tsx, the listener of those events).
emit(s, type, node, tree, choices) ==
  [s EXCEPT !.hist.devents =
              Append(@, [type |-> type, node |-> node, tree |-> tree,
                         choices |-> choices]),
            !.hist.presented =
              CASE type = "choicesReady" -> choices
                [] type \in {"nodeEnter", "dialogueEnd"} -> <<>>
                [] OTHER -> @]

ChoiceIdsOf(choices) == [i \in 1..Len(choices) |-> choices[i].id]
FindChoice(ref, choiceId) ==
  LET cs == NodeAt(ref).choices
      hit == {i \in 1..Len(cs) : cs[i].id = choiceId}
  IN IF hit = {} THEN 0 ELSE MinOf(hit)

\* `${currentTree?.id}:${choice.id}`
ChoiceKey(tree, choiceId) ==
  <<IF tree = NoTree THEN "undefined" ELSE tree, choiceId>>

filterChoices(s, choices) ==
  SelectSeq(choices, LAMBDA c :
    /\ ~(c.condition # NoCond /\ ~evaluateCondition(s.gameState, c.condition))
    /\ ~(c.once /\ hasSelectedChoice(s.gameState,
                                      ChoiceKey(s.currentTree, c.id))))

endDialogue(s) ==
  LET tree == s.currentTree
  IN emit([s EXCEPT !.currentTree = NoTree, !.currentNode = NoNode,
                    !.isDialogueActive = FALSE],
          "dialogueEnd", NoNode, tree, <<>>)

RECURSIVE enterNode(_, _, _), afterEnter(_, _), handleAutoAdvance(_, _)

\* The node id names no node of the tree (hist.missing notes the id for
\* the properties).
NotFound(s, nodeId) ==
  [s EXCEPT !.hist.missing = @ \cup {<<s.currentTree, nodeId>>}]
nodeNotFoundIgnored(s, nodeId) == NotFound(s, nodeId)
nodeNotFound(s, nodeId) == endDialogue(NotFound(s, nodeId))

\* enterNode up to its await of the node's onEnter list.  via tells, for the
\* properties, which choice led here and what its selectChoice call had
\* completed by then.
enterNode(s, nodeId, via) ==
  IF s.currentTree = NoTree THEN s
  ELSE IF nodeId \notin DOMAIN DialogueTrees[s.currentTree].nodes
    THEN nodeNotFound(s, nodeId)
  ELSE
    LET ref == [tree |-> s.currentTree, id |-> nodeId]
        s1 == [s EXCEPT !.currentNode = ref,
                        !.gameState = recordDialogueVisit(@,
                                        <<s.currentTree, nodeId>>),
                        !.hist.entered = @ \cup {[node |-> ref, via |-> via]}]
    IN IF NodeAt(ref).onEnter # NoScript
         THEN runScriptThen(s1, NodeAt(ref).onEnter, "onEnter", "dialogue",
                            [NoK EXCEPT !.pc = "enterNode", !.node = ref])
         ELSE afterEnter(s1, ref)

\* enterNode from the emission of nodeEnter on; ref is its local `node`.
afterEnter(s, ref) ==
  LET node == NodeAt(ref)
      s1 == emit(s, "nodeEnter", ref, s.currentTree, <<>>)
  IN IF Len(node.choices) > 0
       THEN LET availableChoices == filterChoices(s1, node.choices)
            IN IF Len(availableChoices) > 0
                 THEN emit(s1, "choicesReady", ref, NoTree,
                           ChoiceIdsOf(availableChoices))
                 ELSE handleAutoAdvance(s1, ref)
       ELSE s1

handleAutoAdvance(s, ref) ==
  LET node == NodeAt(ref)
  IN IF node.next # NoNext
       THEN IF node.next = "end" THEN endDialogue(s)
                                 ELSE enterNode(s, node.next, NoVia)
     ELSE IF node.endConversation THEN endDialogue(s)
     ELSE IF Len(node.choices) = 0 THEN endDialogue(s)
     ELSE s

\* The first registered tree of the character.
TreeFor(characterId) ==
  LET hit == {i \in 1..Len(TreeOrder) :
                DialogueTrees[TreeOrder[i]].characterId = characterId}
  IN IF hit = {} THEN NoTree ELSE TreeOrder[MinOf(hit)]

startDialogue(s, characterId) ==
  LET tree == TreeFor(characterId)
  IN IF tree = NoTree THEN s
     ELSE enterNode([s EXCEPT !.currentTree = tree,
                              !.isDialogueActive = TRUE],
                    DialogueTrees[tree].startNode, NoVia)

\* selectChoice after its await of the on-select list; ref and choiceId stand
\* for its local `choice`.
selAfterSelect(s, ref, choiceId, trail) ==
  LET choice == NodeAt(ref).choices[FindChoice(ref, choiceId)]
  IN IF choice.targetNode = "end" THEN endDialogue(s)
     ELSE enterNode(s, choice.targetNode,
                    [choice |-> choiceId, trail |-> trail])

selAfterExitNoAwait(s, ref, choiceId, trail) ==
  LET choice == NodeAt(ref).choices[FindChoice(ref, choiceId)]
      s1 == emit(s, "nodeExit", s.currentNode, NoTree, <<>>)
  IN IF choice.onSelect # NoScript
       THEN selAfterSelect(runScriptThen(s1, choice.onSelect, "onSelect",
                                         "none", NoK),
                           ref, choiceId, trail)
       ELSE selAfterSelect(s1, ref, choiceId, Append(trail, "select"))

\* selectChoice from the emission of nodeExit on.
selAfterExit(s, ref, choiceId, trail) ==
  LET choice == NodeAt(ref).choices[FindChoice(ref, choiceId)]
      s1 == emit(s, "nodeExit", s.currentNode, NoTree, <<>>)
  IN IF choice.onSelect # NoScript
       THEN runScriptThen(s1, choice.onSelect, "onSelect", "dialogue",
                          [pc |-> "selectSelect", node |-> ref,
                           choice |-> choiceId,
                           via |-> [choice |-> choiceId, trail |-> trail]])
       ELSE selAfterSelect(s1, ref, choiceId, Append(trail, "select"))

selectChoice(s, choiceId) ==
  IF s.currentTree = NoTree \/ s.currentNode = NoNode THEN s
  ELSE IF FindChoice(s.currentNode, choiceId) = 0 THEN s
  ELSE
    LET ref == s.currentNode
        s1 == [s EXCEPT !.gameState =
                 recordChoiceSelection(@, ChoiceKey(s.currentTree, choiceId)),
                        !.hist.chosen = @ \cup {<<ref, choiceId>>}]
    IN IF NodeAt(ref).onExit # NoScript
         THEN runScriptThen(s1, NodeAt(ref).onExit, "onExit", "dialogue",
                            [pc |-> "selectExit", node |-> ref,
                             choice |-> choiceId,
                             via |-> [choice |-> choiceId,
                                      trail |-> <<"record">>]])
         ELSE selAfterExit(s1, ref, choiceId, <<"record", "exit">>)

\* advanceDialogue after its await of the on-exit list: currentNode is read
\* again, and handleAutoAdvance(null) throws.
advAfterExit(s) ==
  LET s1 == emit(s, "nodeExit", s.currentNode, NoTree, <<>>)
  IN IF s1.currentNode = NoNode THEN s1
     ELSE handleAutoAdvance(s1, s1.currentNode)

advanceDialogue(s) ==
  IF s.currentTree = NoTree \/ s.currentNode = NoNode THEN s
  ELSE IF NodeAt(s.currentNode).onExit # NoScript
    THEN runScriptThen(s, NodeAt(s.currentNode).onExit, "onExit", "dialogue",
                       [NoK EXCEPT !.pc = "advanceExit"])
  ELSE advAfterExit(s)

\* The rest of the function of DialogueManager.ts that awaited a call of
\* runScriptWithContext, once that call's promise is resolved.
dialogueResume(s, k) ==
  CASE k.pc = "enterNode" -> afterEnter(s, k.node)
    [] k.pc = "selectExit" ->
         selAfterExit(s, k.node, k.choice, Append(k.via.trail, "exit"))
    [] k.pc = "selectSelect" ->
         selAfterSelect(s, k.node, k.choice, Append(k.via.trail, "select"))
    [] k.pc = "advanceExit" -> advAfterExit(s)
    [] OTHER -> s

\* -------------------------------------------- DialogueLoader (part_003)
\* A dialogue file is the list of its tree definitions.  A definition lists
\* its nodes as Object.entries gives them, <<id, node>>; a node is a record
\* that has the fields next, choices and endConversation only when the JSON
\* has them.
HasField(r, f) == f \in DOMAIN r
Truthy(r, f) ==
  /\ HasField(r, f)
  /\ CASE f = "next" -> r[f] # ""
       [] f = "endConversation" -> r[f]
       [] OTHER -> TRUE   \* an array, even an empty one
NodeIn(dialogue, id) ==
  \E i \in 1..Len(dialogue.nodes) : dialogue.nodes[i][1] = id

RECURSIVE Flatten(_)
Flatten(ss) == IF ss = <<>> THEN <<>> ELSE Head(ss) \o Flatten(Tail(ss))

Problem(kind, dialogue, node, ref) ==
  [kind |-> kind, tree |-> dialogue.id, node |-> node, ref |-> ref]

startErrorsNone(dialogue) == <<>>

\* "Check start node exists"
startErrors(dialogue) ==
  IF ~NodeIn(dialogue, dialogue.startNode)
    THEN <<Problem("start", dialogue, dialogue.startNode, "")>>
    ELSE <<>>

\* The checks of one node, in the order the loop makes them.
nodeErrors(dialogue, nodeId, node) ==
  (IF Truthy(node, "next") /\ node.next # "end"
      /\ ~NodeIn(dialogue, node.next)
     THEN <<Problem("next", dialogue, nodeId, node.next)>> ELSE <<>>)
  \o (IF Truthy(node, "choices")
        THEN Flatten([i \in 1..Len(node.choices) |->
               IF node.choices[i].targetNode # "end"
                  /\ ~NodeIn(dialogue, node.choices[i].targetNode)
                 THEN <<Problem("target", dialogue, nodeId,
                                node.choices[i].targetNode)>>
                 ELSE <<>>])
        ELSE <<>>)
  \o (IF ~Truthy(node, "next") /\ ~Truthy(node, "choices")
         /\ ~Truthy(node, "endConversation")
        THEN <<Problem("noexit", dialogue, nodeId, "")>> ELSE <<>>)

validateDialogueFile(file) ==
  LET errors ==
        Flatten([d \in 1..Len(file) |->
          startErrors(file[d]) \o
          Flatten([i \in 1..Len(file[d].nodes) |->
            nodeErrors(file[d], file[d].nodes[i][1], file[d].nodes[i][2])])])
  IN [valid |-> Len(errors) = 0, errors |-> errors]

\* convertNode: the fields that are truthy are copied, choices only when
\* the list is not empty.
convertNode(def) ==
  LET keep == {f \in {"next", "endConversation"} : Truthy(def, f)}
              \cup (IF HasField(def, "choices") /\ Len(def.choices) > 0
                      THEN {"choices"} ELSE {})
              \cup {"text"}
  IN [f \in keep |-> def[f]]
convertToEngineFormat(def) ==
  [id |-> def.id, characterId |-> def.characterId,
   startNode |-> def.startNode,
   nodes |-> [i \in 1..Len(def.nodes) |->
                <<def.nodes[i][1], convertNode(def.nodes[i][2])>>]]
registerDialogueTree(trees, tree) == SetKey(trees, tree.id, tree)
RECURSIVE loadDialogueFile(_, _)
loadDialogueFile(trees, file) ==
  IF file = <<>> THEN trees
  ELSE loadDialogueFile(
         registerDialogueTree(trees, convertToEngineFormat(Head(file))),
         Tail(file))

\* ----------------------------------------------------------- state machine
Cur ==
  [ gameState |-> gameState, isRunningScript |-> isRunningScript,
    dialogueDismissResolve |-> dialogueDismissResolve,
    dialogueCompleteResolve |-> dialogueCompleteResolve,
    walkCompleteResolvers |-> walkCompleteResolvers,
    tasks |-> tasks, ready |-> ready, timers |-> timers,
    currentRoom |-> currentRoom, playerPath |-> playerPath,
    playerDistanceTraveled |-> playerDistanceTraveled,
    isWalking |-> isWalking, actionQueue |-> actionQueue,
    currentAction |-> currentAction, selectedItem |-> selectedItem,
    saves |-> saves, currentTree |-> currentTree,
    currentNode |-> currentNode, isDialogueActive |-> isDialogueActive,
    dialogueTrees |-> dialogueTrees,
    hist |-> hist, overflow |-> FALSE ]

\* The program state of s, without the history.
Real(s) ==
  <<s.gameState, s.isRunningScript, s.dialogueDismissResolve,
    s.dialogueCompleteResolve, s.walkCompleteResolvers, s.tasks, s.ready,
    s.timers, s.currentRoom, s.playerPath, s.playerDistanceTraveled,
    s.isWalking, s.actionQueue, s.currentAction, s.selectedItem, s.saves,
    s.currentTree, s.currentNode, s.isDialogueActive, s.dialogueTrees>>

\* Tasks are numbered by age: when a task ends, the younger ones move down.
\* (A task's number stands for the identity of its promise, which the
\* program never inspects.)
Live(s) == {t \in 1..MaxTasks : s.tasks[t].status # "free"}
Rank(s, t) == IF t = 0 THEN 0 ELSE Cardinality({u \in Live(s) : u <= t})
Compact(s) ==
  LET old(i) == CHOOSE t \in Live(s) : Rank(s, t) = i
  IN [s EXCEPT
        !.tasks = [i \in 1..MaxTasks |->
                     IF i <= Cardinality(Live(s)) THEN s.tasks[old(i)]
                                                  ELSE FreeTask],
        !.dialogueDismissResolve = Rank(s, @),
        !.dialogueCompleteResolve = Rank(s, @),
        !.walkCompleteResolvers = [a \in Actors |-> Rank(s, @[a])],
        !.ready = [i \in 1..Len(@) |-> Rank(s, @[i])],
        !.timers = [i \in 1..Len(@) |-> <<Rank(s, @[i][1]), @[i][2]>>]]

\* A handler that changed nothing and notified no listener leaves no trace
\* in the history.
Settle(r) ==
  IF r.overflow THEN r
  ELSE LET c == Compact(r)
       IN IF Real(c) = Real(Cur) /\ c.hist.devents = <<>>
            THEN [c EXCEPT !.hist = hist] ELSE c

Assign(r) ==
  /\ ~r.overflow
  /\ gameState' = r.gameState
  /\ isRunningScript' = r.isRunningScript
  /\ dialogueDismissResolve' = r.dialogueDismissResolve
  /\ dialogueCompleteResolve' = r.dialogueCompleteResolve
  /\ walkCompleteResolvers' = r.walkCompleteResolvers
  /\ tasks' = r.tasks
  /\ ready' = r.ready
  /\ timers' = r.timers
  /\ currentRoom' = r.currentRoom
  /\ playerPath' = r.playerPath
  /\ playerDistanceTraveled' = r.playerDistanceTraveled
  /\ isWalking' = r.isWalking
  /\ actionQueue' = r.actionQueue
  /\ currentAction' = r.currentAction
  /\ selectedItem' = r.selectedItem
  /\ saves' = r.saves
  /\ currentTree' = r.currentTree
  /\ currentNode' = r.currentNode
  /\ isDialogueActive' = r.isDialogueActive
  /\ dialogueTrees' = r.dialogueTrees
  /\ hist' = r.hist

\* The scene as constructed, before the first room is loaded.
Created ==
  [ gameState |-> createInitialState, isRunningScript |-> FALSE,
    dialogueDismissResolve |-> 0, dialogueCompleteResolve |-> 0,
    walkCompleteResolvers |-> [a \in Actors |-> 0],
    tasks |-> [t \in 1..MaxTasks |-> FreeTask], ready |-> <<>>,
    timers |-> <<>>, currentRoom |-> NoRoom, playerPath |-> <<>>,
    playerDistanceTraveled |-> 0, isWalking |-> FALSE, actionQueue |-> <<>>,
    currentAction |-> NoAction, selectedItem |-> NoItem,
    saves |-> [slot \in Slots |-> NoSave],
    currentTree |-> NoTree, currentNode |-> NoNode,
    isDialogueActive |-> FALSE,
    dialogueTrees |-> DialogueTrees,
    hist |-> [click |-> NoClick, signals |-> {}, resumed |-> {},
              started |-> {}, walkDone |-> FALSE, replaced |-> FALSE,
              ifs |-> {}, store |-> NoStoreOp, devents |-> <<>>,
              call |-> NoCall, entered |-> {}, missing |-> {},
              presented |-> <<>>,
              set |-> NoSetOp, cond |-> NoCondOp, load |-> NoLoadOp,
              val |-> NoValOp, find |-> NoFind,
              saved |-> [slot \in Slots |-> <<>>], chosen |-> {}],
    overflow |-> FALSE ]

\* The page registers the rooms and loads the first one (handleSceneReady).
Started == loadRoom(Created, createInitialState.currentRoom, -1)

InitAs(r) ==
  /\ gameState = r.gameState
  /\ isRunningScript = r.isRunningScript
  /\ dialogueDismissResolve = r.dialogueDismissResolve
  /\ dialogueCompleteResolve = r.dialogueCompleteResolve
  /\ walkCompleteResolvers = r.walkCompleteResolvers
  /\ tasks = r.tasks
  /\ ready = r.ready
  /\ timers = r.timers
  /\ currentRoom = r.currentRoom
  /\ playerPath = r.playerPath
  /\ playerDistanceTraveled = r.playerDistanceTraveled
  /\ isWalking = r.isWalking
  /\ actionQueue = r.actionQueue
  /\ currentAction = r.currentAction
  /\ selectedItem = r.selectedItem
  /\ saves = r.saves
  /\ currentTree = r.currentTree
  /\ currentNode = r.currentNode
  /\ isDialogueActive = r.isDialogueActive
  /\ dialogueTrees = r.dialogueTrees
  /\ hist = r.hist

Init == InitAs(Started)

\* A handler of the event loop runs only when no continuation is ready.
Idle == ready = <<>>

\* One continuation of the microtask queue.
microtask(s) ==
  LET t == Head(s.ready)
      tk == s.tasks[t]
      s1 == [s EXCEPT !.ready = Tail(@)]
  IN CASE tk.status = "finished" ->
            \* the promise of runScriptWithContext is resolved: .then(...)
            LET s2 == [s1 EXCEPT !.tasks[t] = FreeTask]
            IN CASE tk.cont = "processNextAction" -> processNextAction(s2)
                 [] tk.cont = "dialogue" -> dialogueResume(s2, tk.k)
                 [] OTHER -> s2
       [] Exhausted(tk.frames) ->
            \* runScript has returned: finally { isRunningScript = false }
            [s1 EXCEPT !.isRunningScript = FALSE,
                       !.tasks[t].status = "finished",
                       !.ready = Append(@, t)]
       [] OTHER -> executeCommand(s1, t)

Microtask ==
  /\ ready # <<>>
  /\ Assign(Settle(microtask(Note(Cur))))

PointerDown(c) ==
  /\ Idle
  /\ c.kind = "hotspot" => c.id \in RoomHotspots(currentRoom)
  /\ c.kind = "exit" => c.id \in RoomExits(currentRoom)
  /\ Assign([Settle(pointerdown(Note(Cur), c)) EXCEPT !.hist.click =
               [at |-> IF isRunningScript THEN "busy" ELSE "idle",
                kind |-> c.kind, id |-> c.id, point |-> c.point]])

Update ==
  /\ Idle
  /\ isWalking
  /\ Assign(Settle(update(Note(Cur))))

\* sleep(): the earliest pending timeout fires, the first set among equals.
FirstTimer(tm) ==
  CHOOSE i \in 1..Len(tm) :
    /\ \A j \in 1..Len(tm) : tm[i][2] <= tm[j][2]
    /\ \A j \in 1..(i - 1) : tm[j][2] > tm[i][2]
timeout(s) ==
  LET i == FirstTimer(s.timers)
      t == s.timers[i][1]
      d == s.timers[i][2]
      rest == [j \in 1..(Len(s.timers) - 1) |->
                 LET e == s.timers[IF j < i THEN j ELSE j + 1]
                 IN <<e[1], e[2] - d>>]
  IN Resolve([s EXCEPT !.timers = rest,
                       !.hist.signals = @ \cup {<<"sleep", "">>}], t)

Timeout ==
  /\ Idle
  /\ timers # <<>>
  /\ Assign(Settle(timeout(Note(Cur))))

\* The presentation layer acknowledges.
SignalDialogueDismissed ==
  /\ Idle
  /\ Assign(Settle(signalDialogueDismissed(Note(Cur))))

SignalDialogueComplete ==
  /\ Idle
  /\ Assign(Settle(signalDialogueComplete(Note(Cur))))

SignalWalkComplete(a) ==
  /\ Idle
  /\ Assign(Settle(signalWalkComplete(Note(Cur), a)))

\* The inventory bar arms or disarms an item (selectItem, clearSelectedItem).
SelectItem(i) ==
  /\ Idle
  /\ Assign(Settle([Note(Cur) EXCEPT !.selectedItem = i]))

Next ==
  \/ Microtask
  \/ \E c \in ClickTargets : PointerDown(c)
  \/ Update
  \/ Timeout
  \/ SignalDialogueDismissed
  \/ SignalDialogueComplete
  \/ \E a \in Actors \ {"player"} : SignalWalkComplete(a)
  \/ \E i \in Items \cup {NoItem} : SelectItem(i)

Spec == Init /\ [][Next]_vars

\* The game whose first room is r4: the player reaches r3 through the exit.
\* No script of these rooms moves an actor or opens a dialogue.
StartedInR4 ==
  loadRoom([Created EXCEPT !.gameState.currentRoom = "r4"], "r4", -1)
InitR4 == InitAs(StartedInR4)
NextR4 ==
  \/ Microtask
  \/ \E c \in ClickTargets : PointerDown(c)
  \/ Update
  \/ Timeout
  \/ SignalDialogueDismissed
  \/ \E i \in Items \cup {NoItem} : SelectItem(i)
SpecR4 == InitR4 /\ [][NextR4]_vars

\* The game whose only room is r5: the lists of its hotspots walk the player.
StartedInR5 ==
  loadRoom([Created EXCEPT !.gameState.currentRoom = "r5"], "r5", -1)
InitR5 == InitAs(StartedInR5)
NextR5 ==
  \/ Microtask
  \/ \E c \in ClickTargets : PointerDown(c)
  \/ Update
  \/ Timeout
  \/ \E i \in Items \cup {NoItem} : SelectItem(i)
SpecR5 == InitR5 /\ [][NextR5]_vars

\* The world state store on its own: its exported functions are called in
\* any order, and lists with reputation commands are run.
ReputationValues == {-500, 0, 500}
ReputationAmounts == {-1000, -60, 60, 1000}
StoreOp(s, op, from, arg) ==
  [s EXCEPT !.hist.store = [op |-> op, from |-> from, arg |-> arg]]

SetReputation(v) ==
  /\ Idle
  /\ Assign(Settle(StoreOp([Note(Cur) EXCEPT !.gameState = setReputation(@, v)],
                           "setReputation", gameState.reputation, v)))
AdjustReputation(a) ==
  /\ Idle
  /\ Assign(Settle(StoreOp(
               [Note(Cur) EXCEPT !.gameState = adjustReputation(@, a)],
               "adjustReputation", gameState.reputation, a)))
RunScript(id) ==
  /\ Idle
  /\ Assign(Settle(runScriptWithContext(Note(Cur), id, "api", "none")))
SaveGame(slot) ==
  /\ Idle
  /\ Assign(Settle(StoreOp(
               [Note(Cur) EXCEPT !.saves = saveGame(gameState, @, slot)],
               "saveGame", gameState.reputation, slot)))
LoadGame(slot) ==
  /\ Idle
  /\ Assign(Settle(StoreOp(
               [Note(Cur) EXCEPT !.gameState = loadGame(@, saves, slot)],
               "loadGame", gameState.reputation, slot)))

StoreInit == InitAs(Created)
StoreNext ==
  \/ Microtask
  \/ \E v \in ReputationValues : SetReputation(v)
  \/ \E a \in ReputationAmounts : AdjustReputation(a)
  \/ \E id \in {"repUp", "repDown"} : RunScript(id)
  \/ \E slot \in Slots : SaveGame(slot)
  \/ \E slot \in Slots : LoadGame(slot)
StoreSpec == StoreInit /\ [][StoreNext]_vars

\* The game of r4 with render ticks of either length: the elapsed time of a
\* frame is what the browser measured, one or two units of walking distance.
FrameSpeeds == {1, 2}
UpdateBy(speed) ==
  /\ Idle
  /\ isWalking
  /\ Assign(Settle(updateBy(Note(Cur), speed)))
FrameNext ==
  \/ Microtask
  \/ \E c \in ClickTargets : PointerDown(c)
  \/ \E speed \in FrameSpeeds : UpdateBy(speed)
  \/ Timeout
  \/ SignalDialogueDismissed
  \/ \E i \in Items \cup {NoItem} : SelectItem(i)
FrameSpec == InitR4 /\ [][FrameNext]_vars

\* The setters of the store that keep a list without duplicates, called in
\* any order.  hist.set is the last call: its name, its argument, and whether
\* the argument was in the list before the call.
StoreItems == {"lantern", "rope"}
StoreRooms == {"r1", "r2"}
StorePuzzles == {"p"}
StoreKeys == {"t1:start"}
StoreHotspots == {"h1"}
SetOp(s, op, arg, had) ==
  [s EXCEPT !.hist.set = [op |-> op, arg |-> arg, had |-> had]]

AddItem(i) ==
  Assign(SetOp([Note(Cur) EXCEPT !.gameState = addItem(@, i)],
               "addItem", i, Contains(gameState.inventory, i)))
RemoveItem(i) ==
  Assign(SetOp([Note(Cur) EXCEPT !.gameState = removeItem(@, i)],
               "removeItem", i, Contains(gameState.inventory, i)))
SetCurrentRoom(r) ==
  Assign(SetOp([Note(Cur) EXCEPT !.gameState = setCurrentRoom(@, r)],
               "setCurrentRoom", r, Contains(gameState.visitedRooms, r)))
MarkPuzzleSolved(p) ==
  Assign(SetOp([Note(Cur) EXCEPT !.gameState = markPuzzleSolved(@, p)],
               "markPuzzleSolved", p, Contains(gameState.solvedPuzzles, p)))
RecordDialogueVisit(key) ==
  Assign(SetOp([Note(Cur) EXCEPT !.gameState = recordDialogueVisit(@, key)],
               "recordDialogueVisit", key,
               Contains(gameState.dialogueHistory, key)))
RecordChoiceSelection(key) ==
  Assign(SetOp([Note(Cur) EXCEPT !.gameState = recordChoiceSelection(@, key)],
               "recordChoiceSelection", key,
               Contains(gameState.selectedChoices, key)))
SetHotspotEnabled(r, h, enabled) ==
  Assign(SetOp([Note(Cur) EXCEPT
                  !.gameState = setHotspotEnabled(@, r, h, enabled)],
               IF enabled THEN "enableHotspot" ELSE "disableHotspot", h,
               /\ r \in DOMAIN gameState.roomStates
               /\ Contains(gameState.roomStates[r].disabledHotspots, h)))
ResetGame ==
  Assign(SetOp([Note(Cur) EXCEPT !.gameState = resetGame(@)],
               "resetGame", "", FALSE))

SetInit == InitAs(Created)
SetNext ==
  \/ \E i \in StoreItems : AddItem(i)
  \/ \E i \in StoreItems : RemoveItem(i)
  \/ \E r \in StoreRooms : SetCurrentRoom(r)
  \/ \E p \in StorePuzzles : MarkPuzzleSolved(p)
  \/ \E key \in StoreKeys : RecordDialogueVisit(key)
  \/ \E key \in StoreKeys : RecordChoiceSelection(key)
  \/ \E h \in StoreHotspots, enabled \in BOOLEAN :
        SetHotspotEnabled("r1", h, enabled)
  \/ ResetGame
SetSpec == SetInit /\ [][SetNext]_vars

\* The condition evaluator on its own: condition strings of the data are
\* evaluated between changes of the store.  hist.cond is the last call.
CondInputs ==
  << NoCond, CondBlank, CondSyntax, CondIdent("nope"), CondHasItem("lantern"),
     CondNotVisited("r2"),
     CondAnd(CondHasItem("lantern"), CondIdent("nope")),
     CondAnd(CondPush("rope"), CondIdent("nope")) >>
EvaluateCondition(n) ==
  LET r == evalCondition(gameState, CondInputs[n])
  IN /\ Len(r.g.inventory) <= MaxInventory
     /\ Assign([Note(Cur) EXCEPT
                  !.gameState = r.g,
                  !.hist.cond = [input |-> n, value |-> r.value,
                                 failed |-> r.failed,
                                 changed |-> r.g # gameState]])
CondInit == InitAs(Created)
CondNext ==
  \/ \E n \in 1..Len(CondInputs) : EvaluateCondition(n)
  \/ \E i \in StoreItems : AddItem(i)
  \/ \E i \in StoreItems : RemoveItem(i)
  \/ \E r \in StoreRooms : SetCurrentRoom(r)
CondSpec == CondInit /\ [][CondNext]_vars

\* Saving and loading over a storage whose content the program did not
\* write: the blob may be unparsable, a slot may hold a record without a
\* snapshot or with a snapshot that has no fields.  hist.load is the last
\* loadGame call: the slot, what it held, the boolean returned and whether
\* the store changed.  The store is followed for as long as it has its
\* fields.
StorageInputs ==
  << [slot \in Slots |-> NoSave],
     Unparsable,
     [slot \in Slots |-> IF slot = 1 THEN [version |-> SAVE_VERSION]
                                     ELSE NoSave],
     [slot \in Slots |->
        IF slot = 1 THEN [version |-> SAVE_VERSION, gameState |-> EmptyObject]
                    ELSE NoSave] >>
SlotKind(sv, slot) ==
  LET saveData == getSaveSlots(sv)[slot]
  IN IF DOMAIN sv # Slots THEN "corrupt"
     ELSE IF saveData = NoSave THEN "absent"
     ELSE IF "gameState" \in DOMAIN saveData
             /\ DOMAIN saveData.gameState = DOMAIN createInitialState
       THEN "valid"
     ELSE "corrupt"
Intact == DOMAIN gameState = DOMAIN createInitialState
LoadSlot(slot) ==
  LET g == loadGame(gameState, saves, slot)
  IN Assign([Note(Cur) EXCEPT
               !.gameState = g,
               !.hist.load = [slot |-> slot, kind |-> SlotKind(saves, slot),
                              ok |-> loadGameResult(saves, slot),
                              changed |-> g # gameState]])
LoadInit ==
  \E n \in 1..Len(StorageInputs) :
    InitAs([Created EXCEPT !.saves = StorageInputs[n]])
LoadNext ==
  \/ \E slot \in Slots : Intact /\ LoadSlot(slot)
  \/ \E slot \in Slots : Intact /\ SaveGame(slot)
  \/ \E i \in StoreItems : Intact /\ AddItem(i)
  \/ \E r \in StoreRooms : Intact /\ SetCurrentRoom(r)
LoadSpec == LoadInit /\ [][LoadNext]_vars

\* Saving, deleting and loading between changes of the store.
\* hist.saved[slot] is <<the state when saveGame(slot) last returned true>>,
\* and <<>> once the slot was deleted.
TripFlags == {<<"x", TRUE>>, <<"n", 1>>}
SetFlag(f, v) == Assign([Note(Cur) EXCEPT !.gameState = setFlag(@, f, v)])
SaveSlot(slot) ==
  Assign([Note(Cur) EXCEPT !.saves = saveGame(gameState, @, slot),
                           !.hist.saved[slot] = <<gameState>>])
DeleteSave(slot) ==
  Assign([Note(Cur) EXCEPT !.saves = deleteSave(@, slot),
                           !.hist.saved[slot] = <<>>])
TripInit == InitAs(Created)
TripNext ==
  \/ \E i \in {"lantern"} : AddItem(i)
  \/ \E i \in {"lantern"} : RemoveItem(i)
  \/ \E fv \in TripFlags : SetFlag(fv[1], fv[2])
  \/ \E enabled \in BOOLEAN : SetHotspotEnabled("r1", "h1", enabled)
  \/ ResetGame
  \/ \E slot \in Slots : SaveSlot(slot)
  \/ \E slot \in Slots : DeleteSave(slot)
  \/ \E slot \in Slots : LoadSlot(slot)
TripSpec == TripInit /\ [][TripNext]_vars

\* The dialogue loader on its own, before any file is loaded: files with one
\* tree v of a node a, and a terminal node b or not, are validated and
\* loaded.  Node a is written from three choices: its next ("" for none; x is no node), its
\* choices (absent, an empty list, or one choice to the given target) and
\* its terminal marking.
NextOptions == {"", "b", "x", "end"}
ChoiceOptions == {"absent", "empty", "a", "x"}
StartOptions == {"a", "b", "x"}
NodeDef(nx, ch, ec) ==
  LET fields == {"text"} \cup (IF nx # "" THEN {"next"} ELSE {})
                  \cup (IF ch # "absent" THEN {"choices"} ELSE {})
                  \cup (IF ec THEN {"endConversation"} ELSE {})
  IN [f \in fields |->
        CASE f = "next" -> nx
          [] f = "choices" ->
               IF ch = "empty" THEN <<>>
               ELSE <<[id |-> "c", targetNode |-> ch]>>
          [] f = "endConversation" -> TRUE
          [] OTHER -> ""]
FileOf(st, two, nx, ch, ec) ==
  << [id |-> "v", characterId |-> "npc", startNode |-> st,
      nodes |-> IF two
                  THEN << <<"a", NodeDef(nx, ch, ec)>>,
                          <<"b", NodeDef("", "absent", TRUE)>> >>
                  ELSE << <<"a", NodeDef(nx, ch, ec)>> >>] >>

ValidateDialogueFile(file) ==
  LET r == validateDialogueFile(file)
  IN Assign([Note(Cur) EXCEPT
               !.hist.val = [file |-> file, errors |-> r.errors,
                             valid |-> r.valid]])
LoadDialogueFile(file) ==
  Assign([Note(Cur) EXCEPT !.dialogueTrees = loadDialogueFile(@, file)])

ValInit == InitAs([Created EXCEPT !.dialogueTrees = EmptyObject])
ValNext ==
  \/ \E st \in StartOptions, two \in BOOLEAN, nx \in NextOptions,
        ch \in ChoiceOptions, ec \in BOOLEAN :
       ValidateDialogueFile(FileOf(st, two, nx, ch, ec))
  \/ \E nx \in NextOptions, ch \in ChoiceOptions :
       LoadDialogueFile(FileOf("a", TRUE, nx, ch, FALSE))
ValSpec == ValInit /\ [][ValNext]_vars

\* The dialogue manager on its own: the trees are registered, and its
\* exported functions are called as a user interface may call them.
Called(s, op, arg) == [s EXCEPT !.hist.call = [op |-> op, arg |-> arg]]

StartDialogue(characterId) ==
  /\ Idle
  /\ Assign(Settle(Called(startDialogue(Note(Cur), characterId),
                          "startDialogue", characterId)))

SelectChoice(choiceId) ==
  /\ Idle
  /\ Assign(Settle(Called(selectChoice(Note(Cur), choiceId),
                          "selectChoice", choiceId)))

AdvanceDialogue ==
  /\ Idle
  /\ Assign(Settle(Called(advanceDialogue(Note(Cur)), "advanceDialogue", "")))

DlgInit == InitAs(Created)
DlgNext ==
  \/ Microtask
  \/ SignalDialogueDismissed
  \/ \E characterId \in Characters : StartDialogue(characterId)
  \/ \E choiceId \in ChoiceIds : SelectChoice(choiceId)
  \/ AdvanceDialogue
DlgSpec == DlgInit /\ [][DlgNext]_vars

\* The same calls on the trees of the characters guide and ghost.
GuideInit == InitAs(Created)
GuideNext ==
  \/ Microtask
  \/ SignalDialogueDismissed
  \/ \E characterId \in GuideCharacters : StartDialogue(characterId)
  \/ \E choiceId \in GuideChoiceIds : SelectChoice(choiceId)
  \/ AdvanceDialogue
GuideSpec == GuideInit /\ [][GuideNext]_vars

\* ------------------------------------- InventoryBar (part_005), useGameState.ts
\* The item definitions the inventory bar is given: lantern and rope make a
\* torch, torch and rope have a list of their own, lantern and torch do not
\* combine.
UiItems == {"lantern", "rope", "torch"}
ItemDefs ==
  [ lantern |-> [canCombineWith |-> <<"rope">>,
                 combineResult |-> [rope |-> "torch"],
                 combineScript |-> EmptyObject],
    rope    |-> [canCombineWith |-> <<>>, combineResult |-> EmptyObject,
                 combineScript |-> EmptyObject],
    torch   |-> [canCombineWith |-> <<"rope">>,
                 combineResult |-> [rope |-> "torch"],
                 combineScript |-> [rope |-> "tieRope"]] ]

handleCombineItems(s, sourceId, targetId) ==
  IF sourceId = targetId THEN s
  ELSE IF sourceId \notin DOMAIN ItemDefs \/ targetId \notin DOMAIN ItemDefs
    THEN s
  ELSE
    LET sourceItem == ItemDefs[sourceId]
        targetItem == ItemDefs[targetId]
        canCombine == \/ Contains(sourceItem.canCombineWith, targetId)
                      \/ Contains(targetItem.canCombineWith, sourceId)
        from == IF targetId \in DOMAIN sourceItem.combineResult
                  THEN <<sourceItem, targetId>>
                ELSE IF sourceId \in DOMAIN targetItem.combineResult
                  THEN <<targetItem, sourceId>>
                ELSE <<>>
        resultId == IF from = <<>> THEN NoItem
                    ELSE from[1].combineResult[from[2]]
        combineScript ==
          IF from # <<>> /\ from[2] \in DOMAIN from[1].combineScript
            THEN from[1].combineScript[from[2]] ELSE NoScript
    IN IF ~canCombine
         THEN runScriptWithContext(s, "cantCombine", "ui", "none")
       ELSE IF combineScript # NoScript
         THEN runScriptWithContext(s, combineScript, "ui", "none")
       ELSE IF resultId # NoItem
         THEN runScriptWithContext(
                [s EXCEPT !.gameState =
                   addItem(removeItem(removeItem(@, sourceId), targetId),
                           resultId)],
                "combined", "ui", "none")
       ELSE s

\* useInventory and useFlags: what the hooks hand to the components.
addToInventory(s, itemId) == [s EXCEPT !.gameState = addItem(@, itemId)]
removeFromInventory(s, itemId) ==
  [s EXCEPT !.gameState = removeItem(@, itemId)]
setGameFlag(s, flag, value) == [s EXCEPT !.gameState = setFlag(@, flag, value)]
toggleFlag(s, flag) ==
  LET current == IF flag \in DOMAIN s.gameState.flags
                   THEN s.gameState.flags[flag] ELSE FALSE
  IN [s EXCEPT !.gameState = setFlag(@, flag, ~current)]
incrementFlagValue(s, flag, amount) ==
  LET current == IF flag \in DOMAIN s.gameState.flags
                   THEN s.gameState.flags[flag] ELSE 0
  IN [s EXCEPT !.gameState = setFlag(@, flag, current + amount)]

\* The inventory bar and the hooks next to the interpreter: the player
\* combines two items he holds, a component calls a hook, a list runs.
MaxFlag == 2
HandleCombineItems(sourceId, targetId) ==
  /\ Idle
  /\ Contains(gameState.inventory, sourceId)
  /\ Contains(gameState.inventory, targetId)
  /\ Assign(Settle(handleCombineItems(
               Called(Note(Cur), "handleCombineItems", sourceId),
               sourceId, targetId)))
AddToInventory(itemId) ==
  /\ Idle
  /\ Assign(Settle(addToInventory(Called(Note(Cur), "addToInventory", itemId),
                                  itemId)))
RemoveFromInventory(itemId) ==
  /\ Idle
  /\ Assign(Settle(removeFromInventory(
               Called(Note(Cur), "removeFromInventory", itemId), itemId)))
SetGameFlag(value) ==
  /\ Idle
  /\ Assign(Settle(setGameFlag(Called(Note(Cur), "setFlag", "f"), "f", value)))
ToggleFlag ==
  /\ Idle
  /\ Assign(Settle(toggleFlag(Called(Note(Cur), "toggleFlag", "f"), "f")))
IncrementFlagValue ==
  /\ Idle
  /\ "n" \in DOMAIN gameState.flags => gameState.flags["n"] < MaxFlag
  /\ Assign(Settle(incrementFlagValue(
               Called(Note(Cur), "incrementFlag", "n"), "n", 1)))
RunList(id) ==
  /\ Idle
  /\ "n" \in DOMAIN gameState.flags => gameState.flags["n"] < MaxFlag
  /\ Assign(Settle(runScriptWithContext(Note(Cur), id, "api", "none")))

UiInit == InitAs(Created)
UiNext ==
  \/ Microtask
  \/ Timeout
  \/ SignalDialogueDismissed
  \/ \E a, b \in UiItems : HandleCombineItems(a, b)
  \/ \E i \in UiItems : AddToInventory(i)
  \/ \E i \in UiItems : RemoveFromInventory(i)
  \/ \E v \in BOOLEAN : SetGameFlag(v)
  \/ ToggleFlag
  \/ IncrementFlagValue
  \/ \E id \in {"pickUp", "tieRope"} : RunList(id)
UiSpec == UiInit /\ [][UiNext]_vars

\* findPath on its own: a call with a start and an end in or around the
\* walkable area.
PathPoints ==
  {Pt(10, 10), Pt(10, 29), Pt(35, 15), Pt(60, 10), Pt(55, 50), Pt(57, 31),
   Pt(65, 65), Pt(45, 60), Pt(20, 50), Pt(39, 50), Pt(80, 35), Pt(5, 20)}
FindPath ==
  /\ hist.find.how = "asked"
  /\ LET found == findPathIn(hist.find.start, hist.find.end, WalkableArea)
     IN hist' = [hist EXCEPT !.find =
                   [start |-> hist.find.start, end |-> hist.find.end,
                    actualStart |-> getClosestPointInPolygon(
                                      hist.find.start, WalkableArea),
                    actualEnd |-> getClosestPointInPolygon(
                                    hist.find.end, WalkableArea),
                    path |-> found.path, how |-> found.how]]
  /\ UNCHANGED <<gameState, isRunningScript, dialogueDismissResolve,
                 dialogueCompleteResolve, walkCompleteResolvers, tasks, ready,
                 timers, currentRoom, playerPath, playerDistanceTraveled,
                 isWalking, actionQueue, currentAction, selectedItem, saves,
                 currentTree, currentNode, isDialogueActive, dialogueTrees>>
PathInit ==
  \E start, end \in PathPoints :
    InitAs([Created EXCEPT !.hist.find.start = start, !.hist.find.end = end,
                           !.hist.find.how = "asked"])
PathNext == FindPath
PathSpec == PathInit /\ [][PathNext]_vars

TypeOK ==
  /\ isRunningScript \in BOOLEAN
  /\ dialogueDismissResolve \in 0..MaxTasks
  /\ \A t \in 1..MaxTasks : tasks[t].status \in
        WaitStatus \cup {"free", "ready", "finished"}

\* ------------------------------------------------------------- properties
TaskIds == 1..MaxTasks
Running == {t \in TaskIds : InProgress(tasks[t])}
EffectSrc == {"use", "useItem", "look", "talk", "exit"}
ScriptOf(t) == tasks[t].frames[1][1]
realvars == <<gameState, isRunningScript, dialogueDismissResolve,
              dialogueCompleteResolve, walkCompleteResolvers, tasks, ready,
              timers, currentRoom, playerPath, playerDistanceTraveled,
              isWalking, actionQueue, currentAction, selectedItem, saves,
              currentTree, currentNode, isDialogueActive, dialogueTrees>>

\* C1: at no time are two command lists started by runScriptWithContext in
\* progress at once.
C1_OneListAtATime == Cardinality(Running) <= 1

\* C3: the script-running flag is true exactly in the states in which some
\* list started by runScriptWithContext has not finished.
C3_FlagTracksLists == isRunningScript <=> Running # {}

\* C2: the commands of one list run in program order without overlap: a task
\* that has asked for an acknowledgement or set a timer stays suspended at
\* that command until it arrives, and when the list
\* [setFlag(a,1), thought, setFlag(a,2)] has finished, flag a is 2.
C2_InOrder ==
  /\ \A t \in TaskIds :
       /\ dialogueDismissResolve = t => tasks[t].status = "dismiss"
       /\ dialogueCompleteResolve = t => tasks[t].status = "complete"
       /\ \A a \in Actors : walkCompleteResolvers[a] = t =>
                              tasks[t].status = "walk" /\ tasks[t].wait = a
       /\ (\E i \in 1..Len(timers) : timers[i][1] = t) =>
            tasks[t].status = "sleep"
       /\ tasks[t].status \in WaitStatus => tasks[t].phase >= 1
  /\ \A t \in TaskIds :
       tasks[t].status = "finished" /\ ScriptOf(t) = "use1" =>
         "a" \in DOMAIN gameState.flags /\ gameState.flags["a"] = 2
C2_Witness ==
  \E t \in TaskIds : /\ tasks[t].status = "finished" /\ ScriptOf(t) = "use1"
                     /\ gameState.flags["a"] = 2

\* C4: every list that is started runs to completion when every
\* acknowledgement is eventually supplied.  A suspended list is resumed only
\* through the resolver that its wait stored (Resolve is applied to the task
\* the runner holds for that kind of signal, and only a new wait stores one),
\* so it can complete only if the runner still holds its resolver: every list
\* suspended on an acknowledgement is the one that acknowledgement resumes.
C4_ListsComplete ==
  \A t \in TaskIds :
    /\ tasks[t].status = "dismiss" => dialogueDismissResolve = t
    /\ tasks[t].status = "complete" => dialogueCompleteResolve = t
    /\ tasks[t].status = "walk" => walkCompleteResolvers[tasks[t].wait] = t

\* C5: a signal resumes only the wait it is addressed to: every task resumed
\* in a step was waiting for a signal (kind and actor id) given in that step.
C5_SignalsKeyed == hist.resumed \subseteq hist.signals
C5_Witness ==
  /\ hist.resumed = {<<"walk", "npc">>}
  /\ dialogueDismissResolve # 0

\* C6: a click accepted while a walk is in flight replaces the queue: no
\* effect of an entry that an earlier click queued is ever started.
C6_ReplacedNeverRuns ==
  \A e \in hist.started : e.src \in EffectSrc => ~e.stale
C6_Witness ==
  /\ hist.replaced
  /\ \E e \in hist.started : e.src \in EffectSrc /\ ~e.stale

\* C7: the effect of a hotspot or exit click never starts before
\* movement-complete has been signalled for the walk of that click.
C7_EffectAfterWalk ==
  \A e \in hist.started : e.src \in {"use", "useItem", "exit"} => e.walkDone

\* C8: at most one walk is in flight (the scene has one path) and at most one
\* non-walk effect has started and not completed.
C8_OneWalkOneEffect ==
  /\ (isWalking => Len(playerPath) = 2)
  /\ Cardinality({t \in Running : tasks[t].src \in EffectSrc}) <= 1

\* C9: a click made while the script-running flag is set changes nothing: not
\* the queue, the current action, the path or the world state, and it starts
\* no list.
C9_BusyClickRejected ==
  [][hist'.click.at = "busy" => UNCHANGED realvars]_vars
C9_Witness == hist.click.at = "busy" /\ isRunningScript /\ Running # {}

\* The chain of the click recorded in h is what the dispatcher now carries out.
ChainOf(h, cur, queue, walking, path) ==
  /\ cur = WalkAction(h.click.point)
  /\ walking /\ Len(path) = 2 /\ path[2] = h.click.point
  /\ Len(queue) = IF h.click.kind = "ground" THEN 0 ELSE 1
  /\ \A i \in 1..Len(queue) :
       /\ ~queue[i].stale
       /\ IF h.click.kind = "exit"
            THEN queue[i].type = "interact" /\ queue[i].exit = h.click.id
            ELSE queue[i].type \in {"use", "useItem"}
                 /\ queue[i].hotspotId = h.click.id

\* C10 as stated: in every reachable state a click is accepted and replaces
\* the action queue.
C10_ClickAlwaysAccepted ==
  [][hist'.click.at # "none" =>
       ChainOf(hist', currentAction', actionQueue', isWalking', playerPath')]_vars

\* C10 as amended: a click made while the script-running flag is clear is
\* accepted and replaces the action queue.
C10_IdleClickAccepted ==
  [][hist'.click.at = "idle" =>
       ChainOf(hist', currentAction', actionQueue', isWalking', playerPath')]_vars
C10_Witness ==
  /\ hist.click.at = "idle" /\ hist.replaced
  /\ Running # {}

\* C11: after a click on the hotspot whose use script is
\* [thought, setFlag(f,true), if(f, then=[puzzleSolved(p)])], once the walk
\* has completed and the acknowledgements are supplied, the script runs to
\* its end with f true and p solved.  The script reaches its end only if the
\* dismissal it waits for can still resume it, and at its end f and p are set.
C11_UseScriptCompletes ==
  \A t \in TaskIds :
    tasks[t].status # "free" /\ ScriptOf(t) = "use4" =>
      /\ tasks[t].status = "dismiss" => dialogueDismissResolve = t
      /\ tasks[t].status = "finished" =>
            /\ evaluateCondition(gameState, CondFlag("f"))
            /\ Contains(gameState.solvedPuzzles, "p")

\* C19: the conditional command runs exactly one list: the then-list when its
\* condition is true, the else-list when it is false and there is one, and
\* no list when it is false and there is none.
C19_OneBranch ==
  \A e \in hist.ifs : e.ran = IF e.val THEN e.then ELSE e.else
C19_Witness ==
  /\ \E e \in hist.ifs : ~e.val /\ e.else # NoScript /\ e.ran = e.else
  /\ \E t \in TaskIds : tasks[t].status = "dismiss" /\ ScriptOf(t) = "use5"

\* C20: the reputation is within [-100, 100] in every reachable state and in
\* every saved snapshot, after any sequence of setReputation,
\* adjustReputation, reputation commands, saves and loads; an adjustment is
\* the clamped sum, and adjusting by +1000 from 0 gives exactly 100.
C20_ReputationClamped ==
  /\ gameState.reputation \in -100..100
  /\ \A slot \in Slots :
       saves[slot] # NoSave => saves[slot].gameState.reputation \in -100..100
  /\ hist.store.op = "adjustReputation" =>
       /\ gameState.reputation =
            Max(-100, Min(100, hist.store.from + hist.store.arg))
       /\ hist.store.from = 0 /\ hist.store.arg = 1000 =>
            gameState.reputation = 100
C20_Witness ==
  /\ hist.store = [op |-> "adjustReputation", from |-> 0, arg |-> 1000]
  /\ gameState.reputation = 100
  /\ \E slot \in Slots :
       saves[slot] # NoSave /\ saves[slot].gameState.reputation = -100

\* The dialogue box shows a choice list: a dialogue is active and the last
\* choicesReady of its node has not been followed by another node or the end.
ChoicesPresented ==
  currentTree # NoTree /\ currentNode # NoNode /\ hist.presented # <<>>

\* C12: a selectChoice(id) call that records, runs or emits anything, or
\* changes the state at all, is made while a choice list is presented and
\* names a choice of that list.
C12_SelectOnlyPresented ==
  [][hist'.call.op = "selectChoice" =>
       ChoicesPresented /\ Contains(hist.presented, hist'.call.arg)]_vars

\* C13: an advance() call that runs a command list, emits an event or
\* changes the state at all is made while no choice list is presented.
C13_AdvanceNotWhilePresented ==
  [][hist'.call.op = "advanceDialogue" => ~ChoicesPresented]_vars

\* The callers of runScriptWithContext in DialogueManager.ts.
DialogueSrc == {"onEnter", "onExit", "onSelect"}

\* C14: while no dialogue is active, a step that is not a call of start
\* enters no node, starts no dialogue command list and emits no dialogue
\* event.
C14_EndedIsQuiet ==
  [][currentTree = NoTree /\ hist'.call.op # "startDialogue" =>
       /\ hist'.devents = <<>>
       /\ hist'.entered = {}
       /\ \A e \in hist'.started : e.src \notin DialogueSrc]_vars

\* No call of a dialogue function is suspended and no list is running.
Quiescent == \A t \in TaskIds : tasks[t].status = "free"

\* C15: an active dialogue at rest is in a node that a call can leave: its
\* choice list is presented, or advance moves on (the node has a next, is
\* terminal, or has no choices).
C15_NoDeadNode ==
  currentTree # NoTree /\ currentNode # NoNode /\ Quiescent =>
    \/ hist.presented # <<>>
    \/ NodeAt(currentNode).next # NoNext
    \/ NodeAt(currentNode).endConversation
    \/ Len(NodeAt(currentNode).choices) = 0

\* The choices of a node that pass the filter of the specification, by id:
\* condition absent or true, and not a once-choice recorded as selected.
Announced(ref) ==
  ChoiceIdsOf(SelectSeq(NodeAt(ref).choices, LAMBDA c :
    /\ c.condition = NoCond \/ evaluateCondition(gameState, c.condition)
    /\ ~(c.once /\ Contains(gameState.selectedChoices, <<ref.tree, c.id>>))))

\* C16: every choicesReady event carries exactly the choices of its node
\* that pass the filter, in the node's order, and that list is not empty.
C16_ChoicesFiltered ==
  \A i \in 1..Len(hist.devents) :
    hist.devents[i].type = "choicesReady" =>
      /\ hist.devents[i].choices = Announced(hist.devents[i].node)
      /\ hist.devents[i].choices # <<>>

\* C17: a node entered through a choice is entered after the selectChoice
\* call has recorded the choice, awaited the node's exit-commands and then
\* awaited the on-select commands, in this order; the choice is recorded
\* once however often it was selected.
C17_SelectOrder ==
  \A e \in hist.entered :
    e.via.choice # "" =>
      /\ e.via.trail = <<"record", "exit", "select">>
      /\ Cardinality({i \in 1..Len(gameState.selectedChoices) :
            gameState.selectedChoices[i] = <<e.node.tree, e.via.choice>>}) = 1

\* c1 led to n2: the exit list (flag x) and the on-select list, which waits
\* for a text (flag y), have run before n2's enter list starts.
C17_Witness ==
  /\ \E e \in hist.entered :
       e.node.id = "n2" /\ e.via.choice = "c1" /\ Len(e.via.trail) = 3
  /\ \E e \in hist.started : e.src = "onEnter"
  /\ evaluateCondition(gameState, CondFlag("x"))
  /\ evaluateCondition(gameState, CondFlag("y"))

\* findDialogueForCharacter of the dialogue loader: the character's trees
\* sorted by priority, highest first (the sort is stable); the first whose
\* condition is absent or true, else the first.
findDialogueForCharacter(g, characterId) ==
  LET mine == {i \in 1..Len(TreeOrder) :
                 DialogueTrees[TreeOrder[i]].characterId = characterId}
      prio(i) == DialogueTrees[TreeOrder[i]].priority
      before(i, j) == prio(i) > prio(j) \/ (prio(i) = prio(j) /\ i < j)
      first(S) == CHOOSE i \in S : \A j \in S \ {i} : before(i, j)
      open == {i \in mine :
                 \/ DialogueTrees[TreeOrder[i]].condition = NoCond
                 \/ evaluateCondition(g, DialogueTrees[TreeOrder[i]].condition)}
  IN IF mine = {} THEN NoTree
     ELSE IF open # {} THEN TreeOrder[first(open)]
     ELSE TreeOrder[first(mine)]

\* C18: right after start(characterId), the tree in use is the one
\* findDialogueForCharacter selects, and its start node is the current node.
C18_StartPicksByPriority ==
  hist.call.op = "startDialogue" =>
    LET tree == findDialogueForCharacter(gameState, hist.call.arg)
    IN /\ currentTree = tree
       /\ currentNode = [tree |-> tree, id |-> DialogueTrees[tree].startNode]

NoDup(seq) == \A i, j \in 1..Len(seq) : seq[i] = seq[j] => i = j

\* C21: the inventory and the set-valued fields of the store hold no value
\* twice; a call of addItem for an item already held, and a call of
\* removeItem for an item not held, leave the whole store as it was.
C21_NoDuplicates ==
  /\ [](/\ NoDup(gameState.inventory)
        /\ NoDup(gameState.visitedRooms)
        /\ NoDup(gameState.solvedPuzzles)
        /\ NoDup(gameState.dialogueHistory)
        /\ NoDup(gameState.selectedChoices)
        /\ \A r \in DOMAIN gameState.roomStates :
             NoDup(gameState.roomStates[r].disabledHotspots))
  /\ [][/\ hist'.set.op = "addItem" /\ hist'.set.had =>
             gameState' = gameState
        /\ hist'.set.op = "removeItem" /\ ~hist'.set.had =>
             gameState' = gameState]_vars

\* The item held first is added again while a second one is held.
C21_Witness ==
  /\ hist.set = [op |-> "addItem", arg |-> "lantern", had |-> TRUE]
  /\ gameState.inventory = <<"lantern", "rope">>
  /\ "r1" \in DOMAIN gameState.roomStates
  /\ gameState.roomStates["r1"].disabledHotspots = <<"h1">>

\* C22: evaluateCondition yields true for an absent or blank condition;
\* when the evaluation fails it yields false and the store is as it was
\* before the call.  (The catch clause has no exit but `return false`, so no
\* evaluation throws.)
C22_ConditionSafe ==
  hist.cond.input # 0 =>
    /\ CondInputs[hist.cond.input].k \in {"none", "blank"} => hist.cond.value
    /\ hist.cond.failed => ~hist.cond.value /\ ~hist.cond.changed

\* C23: a loadGame call on a slot that is absent or corrupt returns false
\* and leaves the store as it was.
C23_FailedLoadKeepsState ==
  hist.load.slot # 0 /\ hist.load.kind \in {"absent", "corrupt"} =>
    ~hist.load.ok /\ ~hist.load.changed

\* A node has an exit, and what it refers to exists.
HasExit(node) ==
  \/ HasField(node, "next") /\ node.next # ""
  \/ HasField(node, "choices") /\ Len(node.choices) > 0
  \/ HasField(node, "endConversation") /\ node.endConversation
Resolves(dialogue, id) == id = "end" \/ NodeIn(dialogue, id)
NodesWellFormed(dialogue) ==
  \A i \in 1..Len(dialogue.nodes) :
    LET node == dialogue.nodes[i][2]
    IN /\ HasExit(node)
       /\ HasField(node, "next") /\ node.next # "" =>
            Resolves(dialogue, node.next)
       /\ HasField(node, "choices") =>
            \A j \in 1..Len(node.choices) :
              Resolves(dialogue, node.choices[j].targetNode)

\* C24: for a validated file whose tree has well-formed nodes, the errors
\* are exactly one error naming the tree and the start node id when the
\* start node is not in the node map, and none (valid) when it is.
C24_ValidationOfStart ==
  hist.val.file # <<>> /\ NodesWellFormed(hist.val.file[1]) =>
    LET dialogue == hist.val.file[1]
    IN IF NodeIn(dialogue, dialogue.startNode)
         THEN hist.val.errors = <<>> /\ hist.val.valid
         ELSE /\ hist.val.errors =
                   <<[kind |-> "start", tree |-> dialogue.id,
                      node |-> dialogue.startNode, ref |-> ""]>>
              /\ ~hist.val.valid

\* A tree of two well-formed nodes whose start node x does not exist.
C24_Witness ==
  /\ hist.val.file # <<>>
  /\ Len(hist.val.file[1].nodes) = 2
  /\ NodesWellFormed(hist.val.file[1])
  /\ hist.val.file[1].startNode = "x"
  /\ Len(hist.val.errors) = 1

\* The node has both a next and a choice.
TwoExits(node) ==
  /\ HasField(node, "next") /\ node.next # ""
  /\ HasField(node, "choices") /\ Len(node.choices) > 0

\* C25: a validated file with a node that has both next and choices is not
\* valid, and no registered tree has such a node.
C25_OneExitMechanism ==
  /\ (/\ hist.val.file # <<>>
      /\ \E i \in 1..Len(hist.val.file[1].nodes) :
            TwoExits(hist.val.file[1].nodes[i][2])) => ~hist.val.valid
  /\ \A id \in DOMAIN dialogueTrees :
       \A i \in 1..Len(dialogueTrees[id].nodes) :
         ~TwoExits(dialogueTrees[id].nodes[i][2])


\* What a run shows of a state: the world state and the events of the step.
Shown(s) == <<s.gameState, s.hist.devents, s.hist.started, s.hist.signals>>

\* C26: the engine is deterministic: the render tick that follows the same
\* inputs and acknowledgements leads to the same world state and the same
\* events in every run, whatever time the tick took.
C26_Deterministic ==
  Idle /\ isWalking =>
    \A d1, d2 \in FrameSpeeds :
      Shown(Settle(updateBy(Note(Cur), d1))) =
        Shown(Settle(updateBy(Note(Cur), d2)))


\* The calls of the presentation layer: the inventory bar and the hooks.
PresentationCalls ==
  {"handleCombineItems", "addToInventory", "removeFromInventory", "setFlag",
   "toggleFlag", "incrementFlag"}

\* C27: the inventory and the flags change only in steps of the script
\* interpreter: no step that is a call of the inventory bar or of a hook
\* changes them.
C27_OnlyCommandsChange ==
  [][(\/ gameState'.inventory # gameState.inventory
      \/ gameState'.flags # gameState.flags)
       => hist'.call.op \notin PresentationCalls]_vars


\* C28: findPath comes to an end and its path is not empty, starts at the
\* start (or the point of the walkable area that stands for it) and ends at
\* the end (or the point that stands for it); the path given when the open
\* set ran empty is the line between these two points.
C28_PathJoinsEndpoints ==
  hist.find.how \in {"direct", "goal", "exhausted"} =>
    /\ hist.find.path # <<>>
    /\ hist.find.path[1] = hist.find.actualStart
    /\ hist.find.path[Len(hist.find.path)] = hist.find.actualEnd
    /\ hist.find.how = "exhausted" =>
         hist.find.path = <<hist.find.actualStart, hist.find.actualEnd>>


\* C29: a walk command for the player suspends its list until the movement
\* is complete and the list is resumed then: a list that waits for the
\* player's walk is resumed only by the signal of its completion, and while
\* it waits the movement that will give the signal is in flight (also when
\* the path has fewer than two points).
C29_WalkResumes ==
  /\ <<"walk", "player">> \in hist.resumed
       => <<"walk", "player">> \in hist.signals /\ ~isWalking
  /\ \A t \in TaskIds :
       tasks[t].status = "walk" /\ tasks[t].wait = "player" => isWalking


\* C30: a goToRoom that names a room no one registered changes nothing: the
\* store's current room is the room the scene has loaded, and every visited
\* room is a registered room.
C30_StoreRoomIsSceneRoom ==
  /\ gameState.currentRoom = currentRoom
  /\ \A i \in 1..Len(gameState.visitedRooms) :
       gameState.visitedRooms[i] \in Rooms


\* The dialogueEnd events among the events of a step.
Ends(devents) == {i \in 1..Len(devents) : devents[i].type = "dialogueEnd"}

\* C31: a step in which start, advance or selectChoice comes to a node id
\* that names no node of the tree in use ends the dialogue (tree and node
\* cleared, dialogueEnd emitted once) and enters no node, records no visit
\* and starts no enter-commands.
C31_AbsentNodeEnds ==
  [][hist'.missing # {} =>
       /\ currentTree' = NoTree /\ currentNode' = NoNode
       /\ ~isDialogueActive'
       /\ Cardinality(Ends(hist'.devents)) = 1
       /\ hist'.entered = {}
       /\ gameState'.dialogueHistory = gameState.dialogueHistory
       /\ \A e \in hist'.started : e.src # "onEnter"]_vars

\* Choice b of t3's start node, whose target is absent, was selected and
\* the dialogue has ended after the node's exit-commands (flag x).
C31_Witness ==
  /\ <<"t3", "gone">> \in hist.missing
  /\ currentTree = NoTree
  /\ Len(hist.devents) = 2 /\ hist.devents[1].type = "nodeExit"
  /\ evaluateCondition(gameState, CondFlag("x"))

\* C32: a loadGame(s) call made after saveGame(s) returned true, with
\* changes of the store and saves or deletes of other slots in between,
\* returns true and leaves the store equal, in every field, to the store at
\* the time of that save.
C32_SaveLoadRoundTrip ==
  hist.load.slot \in Slots =>
    (hist.saved[hist.load.slot] # <<>> =>
       /\ hist.load.ok
       /\ gameState = hist.saved[hist.load.slot][1])

\* Slot 1 was saved with the lantern held, flag n set and hotspot h1
\* disabled; the store was reset and slot 2 saved; slot 1 is loaded.
C32_Witness ==
  /\ hist.load.slot = 1 /\ hist.load.changed
  /\ hist.saved[2] = <<createInitialState>>
  /\ gameState.inventory = <<"lantern">>
  /\ "n" \in DOMAIN gameState.flags
  /\ "r1" \in DOMAIN gameState.roomStates
  /\ gameState.roomStates["r1"].disabledHotspots = <<"h1">>


\* The walk that update(delta) found in flight is over after it: the path
\* is dropped, or the next action has begun another walk from distance 0.
WalkEnded(r, d) == ~r.isWalking \/ r.playerDistanceTraveled # d

\* C33: a frame tick with positive elapsed time on a walk in flight adds to
\* the accumulated distance, and the walk completes in that tick exactly
\* when the accumulated distance has reached the length of the path.
C33_CompletesOnReach ==
  Idle /\ isWalking /\ Len(playerPath) = 2 =>
    \A speed \in FrameSpeeds :
      /\ playerDistanceTraveled + speed > playerDistanceTraveled
      /\ WalkEnded(updateBy(Note(Cur), speed), playerDistanceTraveled + speed)
           <=> (playerDistanceTraveled + speed >=
                  distance(playerPath[1], playerPath[2]))


\* The runner holds the resolver of task t's wait: a signal of that kind (and
\* actor) resumes t.
Resumable(tk, t, dismiss, complete, walk) ==
  CASE tk.status = "dismiss" -> dismiss = t
    [] tk.status = "complete" -> complete = t
    [] tk.status = "walk" -> walk[tk.wait] = t
    [] OTHER -> TRUE

\* C34: registering a wait orphans no outstanding one: a task that is
\* suspended on an acknowledgement and resumable by it stays resumable for
\* as long as it stays suspended, whatever waits are registered meanwhile.
C34_NoOrphanedWait ==
  [][\A t \in TaskIds :
       (/\ tasks[t].status \in {"dismiss", "complete", "walk"}
        /\ tasks'[t] = tasks[t]
        /\ Resumable(tasks[t], t, dialogueDismissResolve,
                     dialogueCompleteResolve, walkCompleteResolvers))
       => Resumable(tasks'[t], t, dialogueDismissResolve',
                    dialogueCompleteResolve', walkCompleteResolvers')]_vars


\* A call of selectChoice or advanceDialogue is suspended in the exit list
\* of its node or in the on-select list of its choice.
InTransition ==
  \E t \in TaskIds :
    /\ tasks[t].status # "free"
    /\ tasks[t].k.pc \in {"selectExit", "selectSelect", "advanceExit"}

\* C35: dialogue transitions do not interleave: a selectChoice or
\* advanceDialogue call made while an earlier one is suspended starts no
\* exit list and no on-select list and enters no node.
C35_NoInterleaving ==
  [][InTransition /\ hist'.call.op \in {"selectChoice", "advanceDialogue"} =>
       /\ \A e \in hist'.started : e.src \notin {"onExit", "onSelect"}
       /\ hist'.entered = {}]_vars


\* C36: every departure from a node runs the node's exit-commands before
\* the next node is entered or the dialogue ends, also the departure made on
\* entry when no choice of the node passes the filter: a node that a step
\* entered and that is no longer the current node when the step is over was
\* left through its exit list, whose end the nodeExit event of the node tells.
C36_ExitBeforeNext ==
  \A i \in 1..Len(hist.devents) :
    hist.devents[i].type = "nodeEnter" /\ currentNode # hist.devents[i].node
      => \E j \in (i + 1)..Len(hist.devents) :
           /\ hist.devents[j].type = "nodeExit"
           /\ hist.devents[j].node = hist.devents[i].node


\* C37: a dialogue that is started is ended before another one begins: a
\* call of start that is made while a tree is in use and that puts a tree
\* in use emits dialogueEnd for the tree it found.
C37_EndedBeforeNextStart ==
  [][(/\ hist'.call.op = "startDialogue"
      /\ currentTree # NoTree
      /\ TreeFor(hist'.call.arg) # NoTree)
       => \E i \in 1..Len(hist'.devents) :
            /\ hist'.devents[i].type = "dialogueEnd"
            /\ hist'.devents[i].tree = currentTree]_vars

\* The places of the once-only choices of a node that have no condition.
OnceAt(ref) ==
  {i \in 1..Len(NodeAt(ref).choices) :
     NodeAt(ref).choices[i].once /\ NodeAt(ref).choices[i].condition = NoCond}

\* The once-only choices of a node that filterChoices leaves out, by id.
OnceExcluded(ref, available) ==
  {NodeAt(ref).choices[i].id : i \in OnceAt(ref)}
    \ {available[i].id : i \in 1..Len(available)}

\* C38: filterChoices leaves a once-only choice out of the list of a node
\* only if that choice was selected in that node before (hist.chosen holds
\* the choices selected, with their nodes).
C38_OncePerNode ==
  currentTree # NoTree =>
    \A id \in DOMAIN DialogueTrees[currentTree].nodes :
      \A c \in OnceExcluded([tree |-> currentTree, id |-> id],
                             filterChoices(Cur,
                               DialogueTrees[currentTree].nodes[id].choices)) :
        <<[tree |-> currentTree, id |-> id], c>> \in hist.chosen

C40_VisitedBeforeEnter ==
  [][\A e \in hist'.ifs :
       (/\ timers' # timers
        /\ \E st \in hist'.started : st.src = "roomEnter"
        /\ e.cond = CondNotVisited(currentRoom'))
       => ~e.val /\ hasVisitedRoom(gameState', currentRoom')]_vars

\* The player has come to r3 through the exit of r4, for the first time:
\* the enter list of r3 has started and found r3 visited.
C40_Witness ==
  /\ currentRoom = "r3" /\ gameState.visitedRooms = <<"r3">>
  /\ \E st \in hist.started : st.src = "roomEnter"
  /\ \E e \in hist.ifs :
       e.cond = CondNotVisited("r3") /\ ~e.val /\ e.ran = NoScript

====
